---- MODULE Spec2Model ----
(***************************************************************************)
(* A model of windows_link_reader (open_lnk): the per-link cache store,    *)
(* the mapping table and mapping file, the mount scorer, the UTF-16        *)
(* decoder and the resolution pipeline of handle_one_lnk.                  *)
(*                                                                         *)
(* C strings are sequences of one-character strings; "\n" is the newline.  *)
(* A NULL pointer is the value Null.                                       *)
(***************************************************************************)
EXTENDS Integers, Sequences, FiniteSets, TLC

VARIABLES
    \* ---- the cache store (cache_links.c) and the processes using it
    paths,      \* directory entries: "cachePath" / "tmpPath" -> inode number, 0 when absent
    inodes,     \* inodes[i]: the bytes of inode i
    procs,      \* per process: position in cache_get/cache_set and its locals
    store0,     \* the bytes of the store before the first call (Null: no file)
    lastSet,    \* history: key -> prefix of the last finished cache_set for it (Null: none)
    finished,   \* history: the complete files produced by the rewrites that reached fclose(out)
    calls,      \* number of calls started so far
    \* ---- try_map_drive_to_mounts_scored (mounts.c): its arguments, the
    \* environment it reads and its locals
    sc,
    \* ---- try_map_unc_with_table (mapping_table.c): arguments, environment, result
    tb,
    \* ---- the mapping file and the MapList loaded from it (mapping_file.c)
    mf,
    \* ---- handle_one_lnk (main.c): the shortcut, the file system and the
    \* stores it works on, its position and locals, the strategies consulted
    eng,
    \* ---- lnk_utf16le_to_utf8 (lnk_io.c): arguments, locals, output
    u16,
    \* ---- normalize_unc and parse_unc_share (unc.c): argument, results
    un,
    \* ---- build_best_target (lnk_target.c): the LnkInfo, locals, result
    bt,
    \* ---- parse_lnk (lnk_parse.c): the stream, the cursor, locals, the LnkInfo
    pl,
    \* ---- main (main.c): the arguments of a batch run and their handling
    bm,
    \* ---- lnk_read_c_string, lnk_read_w_string (lnk_io.c): stream, buffer, locals
    rd,
    \* ---- try_map_unc_to_cifs_mounts (mounts.c): arguments, result
    cm

cacheVars == <<paths, inodes, procs, store0, lastSet, finished, calls>>

vars == <<paths, inodes, procs, store0, lastSet, finished, calls, sc, tb, mf, eng, u16,
          un, bt, pl, bm, rd, cm>>

\* the value of the variables of a part of the program that is not running
Off == <<>>

otherThanCache == <<sc, tb, mf, eng, u16, un, bt, pl, bm, rd, cm>>
otherThanSc == <<cacheVars, tb, mf, eng, u16, un, bt, pl, bm, rd, cm>>
otherThanTb == <<cacheVars, sc, mf, eng, u16, un, bt, pl, bm, rd, cm>>
otherThanMf == <<cacheVars, sc, tb, eng, u16, un, bt, pl, bm, rd, cm>>
otherThanEng == <<cacheVars, sc, tb, mf, u16, un, bt, pl, bm, rd, cm>>
otherThanU16 == <<cacheVars, sc, tb, mf, eng, un, bt, pl, bm, rd, cm>>
otherThanUn == <<cacheVars, sc, tb, mf, eng, u16, bt, pl, bm, rd, cm>>
otherThanBt == <<cacheVars, sc, tb, mf, eng, u16, un, pl, bm, rd, cm>>
otherThanPl == <<cacheVars, sc, tb, mf, eng, u16, un, bt, bm, rd, cm>>
otherThanBm == <<cacheVars, sc, tb, mf, eng, u16, un, bt, pl, rd, cm>>
otherThanRd == <<cacheVars, sc, tb, mf, eng, u16, un, bt, pl, bm, cm>>
otherThanCm == <<cacheVars, sc, tb, mf, eng, u16, un, bt, pl, bm, rd>>

CacheOff ==
    /\ paths = Off /\ inodes = Off /\ procs = Off /\ store0 = Off
    /\ lastSet = Off /\ finished = Off /\ calls = Off

\* the parts of the earlier sections all idle
EarlierOff == CacheOff /\ sc = Off /\ tb = Off /\ mf = Off /\ eng = Off /\ u16 = Off

\* the parts of the decoder and of main all idle
DecoderOff == un = Off /\ bt = Off /\ pl = Off /\ bm = Off

\* NULL; a value no C string equals
Null == <<"NULL">>

(***************************************************************************)
(* String helpers (libc).                                                  *)
(***************************************************************************)
\* strncmp(s, p, strlen(p)) == 0
StartsWith(s, p) == Len(p) <= Len(s) /\ SubSeq(s, 1, Len(p)) = p

\* strchr: index of the first c in s, 0 when there is none
StrChr(s, c) ==
    IF \E i \in 1..Len(s) : s[i] = c
    THEN CHOOSE i \in 1..Len(s) : s[i] = c /\ \A j \in 1..(i - 1) : s[j] # c
    ELSE 0

\* the tail of s from index i (1-based) on
From(s, i) == SubSeq(s, i, Len(s))

RECURSIVE Concat(_)
Concat(ss) == IF ss = <<>> THEN <<>> ELSE Head(ss) \o Concat(Tail(ss))

(***************************************************************************)
(* cache_links.c                                                           *)
(***************************************************************************)
NL == "\n"
CR == "\r"

\* the lines fgets returns on a stream holding bytes: each keeps its "\n";
\* the last one may lack it
RECURSIVE FgetsLines(_)
FgetsLines(bytes) ==
    IF bytes = <<>> THEN <<>>
    ELSE LET n == StrChr(bytes, NL) IN
         IF n = 0 THEN <<bytes>>
         ELSE <<SubSeq(bytes, 1, n)>> \o FgetsLines(From(bytes, n + 1))

RECURSIVE rstrip_newline(_)
rstrip_newline(s) ==
    IF Len(s) > 0 /\ s[Len(s)] \in {NL, CR}
    THEN rstrip_newline(SubSeq(s, 1, Len(s) - 1))
    ELSE s

\* a line the loops skip or copy: a comment, an empty line, a line without '='
IsSkipped(line) == line = <<>> \/ line[1] = "#" \/ StrChr(line, "=") = 0

\* k and v of a line "k=v": split at the first '='
LineKey(line) == SubSeq(line, 1, StrChr(line, "=") - 1)
LineVal(line) == From(line, StrChr(line, "=") + 1)

\* the while loop of cache_get_prefix_for_lnk: the last value of a matching key
RECURSIVE GetScan(_, _, _)
GetScan(lines, lnk_abs_path, found) ==
    IF lines = <<>> THEN found
    ELSE LET line == rstrip_newline(Head(lines)) IN
         IF IsSkipped(line) THEN GetScan(Tail(lines), lnk_abs_path, found)
         ELSE IF LineKey(line) = lnk_abs_path /\ LineVal(line) # <<>>
              THEN GetScan(Tail(lines), lnk_abs_path, LineVal(line))
              ELSE GetScan(Tail(lines), lnk_abs_path, found)

\* what one iteration of the loop of cache_set_prefix_for_lnk writes for a line
SetLineOut(orig, lnk_abs_path, prefix) ==
    LET line == rstrip_newline(orig) IN
    IF IsSkipped(line) THEN orig
    ELSE IF LineKey(line) = lnk_abs_path
         THEN lnk_abs_path \o <<"=">> \o prefix \o <<NL>>
         ELSE IF orig[Len(orig)] # NL THEN orig \o <<NL>> ELSE orig

\* whether the loop set the flag replaced
SetReplaced(lines, lnk_abs_path) ==
    \E i \in 1..Len(lines) :
        LET line == rstrip_newline(lines[i]) IN
        ~IsSkipped(line) /\ LineKey(line) = lnk_abs_path

\* everything cache_set_prefix_for_lnk has written to out when it reaches fclose(out)
RewriteBytes(bytes, lnk_abs_path, prefix) ==
    LET lines == FgetsLines(bytes) IN
    Concat([i \in 1..Len(lines) |-> SetLineOut(lines[i], lnk_abs_path, prefix)])
    \o (IF SetReplaced(lines, lnk_abs_path) THEN <<>>
        ELSE lnk_abs_path \o <<"=">> \o prefix \o <<NL>>)

(***************************************************************************)
(* The processes calling cache_get_prefix_for_lnk and                      *)
(* cache_set_prefix_for_lnk.  One step per system call: stdio reads a      *)
(* small file with one read() and sends what was written with one write()  *)
(* at fclose().  HOME is set and the cache directory is writable, so       *)
(* xdg_cache_links_path() and fopen(tmpPath, "w") succeed.                 *)
(***************************************************************************)
NProcs == 2
MaxSeqCalls == 3
MaxConcCalls == 2

Procs == 1..NProcs

K_a    == <<"/", "a">>
K_b    == <<"/", "b">>
K_aeqb == <<"/", "a", "=", "b">>
P_x    == <<"/", "x">>
P_yy   == <<"/", "y", "y">>

Keys     == {K_a, K_b, K_aeqb}
Prefixes == {P_x, P_yy}
KeyArgs    == Keys \cup {<<>>}
PrefixArgs == Prefixes \cup {<<>>}

\* the stores a run may start from
InitStores ==
    { Null,
      <<>>,
      K_b \o <<"=">> \o P_yy \o <<NL>>,
      <<"#", "c", NL>> \o K_a \o <<"=">> \o P_x,
      K_b \o <<"=">> \o P_yy \o <<NL, "#", "c">> }

IdleProc ==
    [pc |-> "idle", op |-> "none", key |-> <<>>, prefix |-> <<>>,
     inIno |-> 0, inData |-> <<>>, outIno |-> 0, result |-> Null, returned |-> FALSE]

CacheInit ==
    /\ store0 \in InitStores
    /\ inodes = IF store0 = Null THEN <<>> ELSE <<store0>>
    /\ paths = [cachePath |-> IF store0 = Null THEN 0 ELSE 1, tmpPath |-> 0]
    /\ procs = [p \in Procs |-> IdleProc]
    /\ lastSet = [k \in Keys |-> Null]
    /\ finished = IF store0 = Null THEN {} ELSE {store0}
    /\ calls = 0

\* cache_set_prefix_for_lnk, entry: the argument check of line 97
cache_set_enter(p, k, v, max) ==
    /\ procs[p].pc = "idle"
    /\ calls < max
    /\ calls' = calls + 1
    /\ procs' = [procs EXCEPT ![p] =
            [IdleProc EXCEPT !.op = "set", !.key = k, !.prefix = v,
                             !.pc = IF k = <<>> \/ v = <<>> THEN "idle" ELSE "fopen_in",
                             !.returned = (k = <<>> \/ v = <<>>)]]
    /\ UNCHANGED <<paths, inodes, store0, lastSet, finished>>
    /\ UNCHANGED otherThanCache

\* cache_get_prefix_for_lnk, entry: the argument check of line 62
cache_get_enter(p, k, max) ==
    /\ procs[p].pc = "idle"
    /\ calls < max
    /\ calls' = calls + 1
    /\ procs' = [procs EXCEPT ![p] =
            [IdleProc EXCEPT !.op = "get", !.key = k,
                             !.pc = IF k = <<>> THEN "idle" ELSE "fopen_in",
                             !.returned = (k = <<>>)]]
    /\ UNCHANGED <<paths, inodes, store0, lastSet, finished>>
    /\ UNCHANGED otherThanCache

\* fopen(cachePath, "r"): NULL (inode 0) when the file does not exist
fopen_in(p) ==
    /\ procs[p].pc = "fopen_in"
    /\ procs' = [procs EXCEPT
            ![p].inIno = paths.cachePath,
            ![p].pc = IF procs[p].op = "set" THEN "fopen_out"
                      ELSE IF paths.cachePath = 0 THEN "idle" ELSE "fgets",
            ![p].returned = (procs[p].op = "get" /\ paths.cachePath = 0)]
    /\ UNCHANGED <<paths, inodes, store0, lastSet, finished, calls>>
    /\ UNCHANGED otherThanCache

\* fopen(tmpPath, "w"): creates the file, or truncates the one that is there
fopen_out(p) ==
    /\ procs[p].pc = "fopen_out"
    /\ IF paths.tmpPath = 0
       THEN /\ inodes' = Append(inodes, <<>>)
            /\ paths' = [paths EXCEPT !.tmpPath = Len(inodes) + 1]
            /\ procs' = [procs EXCEPT ![p].outIno = Len(inodes) + 1,
                                      ![p].pc = "fgets"]
       ELSE /\ inodes' = [inodes EXCEPT ![paths.tmpPath] = <<>>]
            /\ paths' = paths
            /\ procs' = [procs EXCEPT ![p].outIno = paths.tmpPath,
                                      ![p].pc = "fgets"]
    /\ UNCHANGED <<store0, lastSet, finished, calls>>
    /\ UNCHANGED otherThanCache

\* the fgets loops: read() returns what the inode holds beyond what was
\* read; at end of file the loop is over
fgets_loop(p) ==
    /\ procs[p].pc = "fgets"
    /\ LET me   == procs[p]
           more == IF me.inIno = 0 THEN <<>>
                   ELSE From(inodes[me.inIno], Len(me.inData) + 1)
       IN IF more # <<>>
          THEN procs' = [procs EXCEPT ![p].inData = me.inData \o more]
          ELSE IF me.op = "get"
               THEN procs' = [procs EXCEPT
                        ![p].result = GetScan(FgetsLines(me.inData), me.key, Null),
                        ![p].pc = "idle",
                        ![p].returned = TRUE]
               ELSE procs' = [procs EXCEPT ![p].pc = "fclose_out"]
    /\ UNCHANGED <<paths, inodes, store0, lastSet, finished, calls>>
    /\ UNCHANGED otherThanCache

\* write(fd, buf, n) at offset 0 of an inode: bytes beyond n stay
WriteAt0(old, buf) == buf \o From(old, Len(buf) + 1)

\* fclose(out): the buffered output reaches the inode out was opened on
fclose_out(p) ==
    /\ procs[p].pc = "fclose_out"
    /\ LET me  == procs[p]
           buf == RewriteBytes(me.inData, me.key, me.prefix)
       IN /\ inodes' = [inodes EXCEPT ![me.outIno] = WriteAt0(inodes[me.outIno], buf)]
          /\ finished' = finished \cup {buf}
    /\ procs' = [procs EXCEPT ![p].pc = "rename"]
    /\ UNCHANGED <<paths, store0, lastSet, calls>>
    /\ UNCHANGED otherThanCache

\* rename(tmpPath, cachePath): fails, ignored, when tmpPath is gone
rename_tmp(p) ==
    /\ procs[p].pc = "rename"
    /\ paths' = IF paths.tmpPath = 0 THEN paths
                ELSE [cachePath |-> paths.tmpPath, tmpPath |-> 0]
    /\ lastSet' = [lastSet EXCEPT ![procs[p].key] = procs[p].prefix]
    /\ procs' = [procs EXCEPT ![p].pc = "idle", ![p].returned = TRUE]
    /\ UNCHANGED <<inodes, store0, finished, calls>>
    /\ UNCHANGED otherThanCache

\* the bytes of the file at cachePath (Null: no file)
Store == IF paths.cachePath = 0 THEN Null ELSE inodes[paths.cachePath]

Quiescent == \A p \in Procs : procs[p].pc = "idle"

\* ---- sequential use: one process, call after call
InitSeq == CacheInit /\ sc = Off /\ tb = Off /\ mf = Off /\ eng = Off /\ u16 = Off
    /\ un = Off /\ bt = Off /\ pl = Off /\ bm = Off /\ rd = Off /\ cm = Off
NextSeq ==
    \/ \E k \in KeyArgs, v \in PrefixArgs : cache_set_enter(1, k, v, MaxSeqCalls)
    \/ \E k \in KeyArgs : cache_get_enter(1, k, MaxSeqCalls)
    \/ fopen_in(1)
    \/ fopen_out(1)
    \/ fgets_loop(1)
    \/ fclose_out(1)
    \/ rename_tmp(1)
SpecSeq == InitSeq /\ [][NextSeq]_vars

\* ---- concurrent use: every process makes its calls independently
InitConc == CacheInit /\ sc = Off /\ tb = Off /\ mf = Off /\ eng = Off /\ u16 = Off
    /\ un = Off /\ bt = Off /\ pl = Off /\ bm = Off /\ rd = Off /\ cm = Off
NextConc ==
    \E p \in Procs :
        \/ \E k \in KeyArgs, v \in PrefixArgs : cache_set_enter(p, k, v, MaxConcCalls)
        \/ \E k \in KeyArgs : cache_get_enter(p, k, MaxConcCalls)
        \/ fopen_in(p)
        \/ fopen_out(p)
        \/ fgets_loop(p)
        \/ fclose_out(p)
        \/ rename_tmp(p)
SpecConc == InitConc /\ [][NextConc]_vars

(***************************************************************************)
(* Claims about the cache store.                                           *)
(***************************************************************************)
StoreLines == IF Store = Null THEN <<>> ELSE FgetsLines(Store)

\* the entries of the store: its lines of the form k=v
IsEntry(l) == ~IsSkipped(rstrip_newline(l))
EntryKey(l) == LineKey(rstrip_newline(l))
EntryVal(l) == LineVal(rstrip_newline(l))

StartedEmpty == store0 = Null \/ store0 = <<>>

\* C1: starting from an empty or absent store, after any sequence of
\* sequential cache_set_prefix_for_lnk calls the store holds at most one line
\* per key, and for every key that was set exactly one line k=v, with v the
\* value of the last set for k.
C1_OneLinePerKeyLastValue ==
    (StartedEmpty /\ Quiescent) =>
        /\ \A i, j \in 1..Len(StoreLines) :
              (i < j /\ IsEntry(StoreLines[i]) /\ IsEntry(StoreLines[j]))
                  => EntryKey(StoreLines[i]) # EntryKey(StoreLines[j])
        /\ \A k \in Keys : lastSet[k] # Null =>
              Cardinality({i \in 1..Len(StoreLines) :
                              StartsWith(StoreLines[i], k \o <<"=">>)}) = 1
              /\ \E i \in 1..Len(StoreLines) :
                    StoreLines[i] = k \o <<"=">> \o lastSet[k] \o <<NL>>

\* C2: under every interleaving of cache_set_prefix_for_lnk calls with a
\* concurrent cache_get_prefix_for_lnk, the file at the cache path is always
\* the complete output of one finished rewrite (or the initial store), never
\* a half-written or mixed file.
C2_VisibleStoreIsComplete ==
    Store # Null => Store \in finished

\* C3: cache_get_prefix_for_lnk(k) called after cache_set_prefix_for_lnk(k, p),
\* with no later write for k, returns p, whatever characters k contains.
C3_GetReturnsLastSet ==
    \A p \in Procs :
        (procs[p].op = "get" /\ procs[p].returned /\ procs[p].key # <<>>
            /\ lastSet[procs[p].key] # Null)
        => procs[p].result = lastSet[procs[p].key]

(***************************************************************************)
(* mounts.c: try_map_drive_to_mounts_scored                                *)
(***************************************************************************)
MaxMounts == 3

\* the environment: getpwuid(uid)->pw_name and $HOME
userName == <<"u">>
homeDir  == <<"/", "h", "/", "u">>

score_mountpoint_prefix(mnt) ==
      (IF StartsWith(mnt, <<"/", "r", "u", "n", "/", "m", "e", "d", "i", "a", "/">>) THEN 50 ELSE 0)
    + (IF StartsWith(mnt, <<"/", "m", "e", "d", "i", "a", "/">>) THEN 40 ELSE 0)
    + (IF StartsWith(mnt, <<"/", "m", "n", "t", "/">>) THEN 25 ELSE 0)
    + (IF StartsWith(mnt, <<"/", "r", "u", "n", "/", "m", "e", "d", "i", "a", "/">> \o userName \o <<"/">>) THEN 25 ELSE 0)
    + (IF StartsWith(mnt, <<"/", "m", "e", "d", "i", "a", "/">> \o userName \o <<"/">>) THEN 20 ELSE 0)
    + (IF StartsWith(mnt, homeDir)
          /\ (Len(mnt) = Len(homeDir) \/ mnt[Len(homeDir) + 1] = "/")
       THEN 10 ELSE 0)

score_fstype(fst) ==
    IF fst \in {"cifs", "smb3"} THEN 35
    ELSE IF fst \in {"ntfs", "ntfs3"} THEN 30
    ELSE IF fst = "exfat" THEN 28
    ELSE IF fst \in {"vfat", "msdos"} THEN 22
    ELSE 0

\* the skip list of line 127, compared with strncmp
SkipList == { <<"/", "p", "r", "o", "c">>, <<"/", "s", "y", "s">>, <<"/", "d", "e", "v">>, <<"/", "r", "u", "n", "/", "u", "s", "e", "r">>, <<"/", "s", "n", "a", "p">>, <<"/", "v", "a", "r", "/", "l", "i", "b", "/", "s", "n", "a", "p", "d">> }
IsSkippedMount(mnt) == \E s \in SkipList : StartsWith(mnt, s)

\* score of one line of /proc/mounts
MountScore(rec) ==
    score_fstype(rec.fst) + score_mountpoint_prefix(rec.mnt) + (Len(rec.mnt) \div 8)

\* the confidence gate after the loop, lines 169-174
ConfidenceGate_OffByOne(bestScore, secondBestScore, bestPath) ==
    IF bestScore < 30 THEN Null
    ELSE IF secondBestScore > bestScore - 3 THEN Null
    ELSE IF bestScore >= 0 /\ bestPath # <<>> THEN bestPath
    ELSE Null

ConfidenceGate(bestScore, secondBestScore, bestPath) ==
    IF bestScore < 30 THEN Null
    ELSE IF secondBestScore >= bestScore - 3 THEN Null
    ELSE IF bestScore >= 0 /\ bestPath # <<>> THEN bestPath
    ELSE Null

\* lines of /proc/mounts (device, mount point, file system type)
MountRecords ==
    { [dev |-> "/dev/sda1", mnt |-> <<"/", "m", "n", "t", "/", "d">>,         fst |-> "exfat"],
      [dev |-> "/dev/sdb1", mnt |-> <<"/", "m", "n", "t", "/", "d", "d", "d">>,       fst |-> "ntfs"],
      [dev |-> "//s/h",     mnt |-> <<"/", "m", "n", "t", "/", "e">>,         fst |-> "cifs"],
      [dev |-> "/dev/sdc1", mnt |-> <<"/", "m", "n", "t", "/", "x">>,         fst |-> "ext4"],
      [dev |-> "proc",      mnt |-> <<"/", "p", "r", "o", "c">>,          fst |-> "proc"],
      [dev |-> "/dev/sdd1", mnt |-> <<"/", "r", "u", "n", "/", "m", "e", "d", "i", "a", "/", "u", "/", "D">>, fst |-> "vfat"] }

MountPoints == { r.mnt : r \in MountRecords }

RECURSIVE SeqsUpTo(_, _)
SeqsUpTo(S, n) ==
    IF n = 0 THEN {<<>>}
    ELSE LET shorter == SeqsUpTo(S, n - 1) IN
         shorter \cup { Append(s, x) : s \in {t \in shorter : Len(t) = n - 1}, x \in S }

DrivePath   == <<"C", ":", "/", "f">>
ScoredArgs  == { DrivePath, <<"C", ":">> }

ScoredInit ==
    \E w \in ScoredArgs, ms \in SeqsUpTo(MountRecords, MaxMounts),
       ex \in SUBSET { m \o From(DrivePath, 3) : m \in MountPoints } :
        sc = [pc |-> "call", winPath |-> w, mounts |-> ms, existing |-> ex,
              i |-> 1, bestScore |-> -1, secondBestScore |-> -1, bestPath |-> <<>>,
              result |-> Null]

\* lines 120-133: the argument checks and the initialisation of the locals
scored_enter ==
    /\ sc.pc = "call"
    /\ IF Len(sc.winPath) < 3 \/ sc.winPath[2] # ":" \/ sc.winPath[3] # "/"
       THEN sc' = [sc EXCEPT !.pc = "done", !.result = Null]
       ELSE sc' = [sc EXCEPT !.pc = "loop"]
    /\ UNCHANGED otherThanSc

\* a score that does not beat the best one is dropped
ScoredStep_BestOnly(loc, rec, core, existing) ==
    LET candidate == rec.mnt \o core
        score     == MountScore(rec)
    IN IF IsSkippedMount(rec.mnt) \/ candidate \notin existing
       THEN loc
       ELSE IF score > loc.bestScore
            THEN [loc EXCEPT !.secondBestScore = loc.bestScore,
                             !.bestScore = score,
                             !.bestPath = candidate]
            ELSE loc

\* lines 142-164 for one line of /proc/mounts: the locals bestScore,
\* secondBestScore and bestPath after it
ScoredStep(loc, rec, core, existing) ==
    LET candidate == rec.mnt \o core
        score     == MountScore(rec)
    IN IF IsSkippedMount(rec.mnt) \/ candidate \notin existing
       THEN loc
       ELSE IF score > loc.bestScore
            THEN [loc EXCEPT !.secondBestScore = loc.bestScore,
                             !.bestScore = score,
                             !.bestPath = candidate]
            ELSE IF score > loc.secondBestScore
                 THEN [loc EXCEPT !.secondBestScore = score]
                 ELSE loc

\* one iteration of the loop over /proc/mounts, lines 138-165
scored_line ==
    /\ sc.pc = "loop"
    /\ sc.i <= Len(sc.mounts)
    /\ sc' = [ScoredStep(sc, sc.mounts[sc.i], From(sc.winPath, 3), sc.existing)
                 EXCEPT !.i = sc.i + 1]
    /\ UNCHANGED otherThanSc

\* end of the loop: the confidence gate decides the result
scored_gate ==
    /\ sc.pc = "loop"
    /\ sc.i > Len(sc.mounts)
    /\ sc' = [sc EXCEPT !.pc = "done",
                        !.result = ConfidenceGate(sc.bestScore, sc.secondBestScore, sc.bestPath)]
    /\ UNCHANGED otherThanSc

InitScored == ScoredInit /\ CacheOff /\ tb = Off /\ mf = Off /\ eng = Off /\ u16 = Off
    /\ un = Off /\ bt = Off /\ pl = Off /\ bm = Off /\ rd = Off /\ cm = Off
NextScored == scored_enter \/ scored_line \/ scored_gate
SpecScored == InitScored /\ [][NextScored]_vars

\* ---- the claim's vocabulary: the existing candidates and their scores
ScCandidates ==
    { i \in 1..Len(sc.mounts) :
        /\ ~IsSkippedMount(sc.mounts[i].mnt)
        /\ (sc.mounts[i].mnt \o From(sc.winPath, 3)) \in sc.existing }

ScScore(i) == MountScore(sc.mounts[i])

\* i is a best candidate: no candidate scores higher
ScIsBest(i) == i \in ScCandidates /\ \A j \in ScCandidates : ScScore(j) <= ScScore(i)

\* C4: try_map_drive_to_mounts_scored returns a path only if the highest
\* score among the existing candidates is at least 30 and exceeds the score
\* of every other existing candidate (so the second-highest) by more than 3;
\* when the two best existing candidates are within 3 of each other it
\* returns no match.
C4_ConfidenceGate ==
    sc.pc = "done" =>
        /\ sc.result # Null =>
              \E i \in ScCandidates :
                  /\ ScIsBest(i)
                  /\ ScScore(i) >= 30
                  /\ \A j \in ScCandidates \ {i} : ScScore(i) - ScScore(j) > 3
        /\ (\E i, j \in ScCandidates :
                i # j /\ ScIsBest(i) /\ ScScore(i) - ScScore(j) <= 3)
              => sc.result = Null

\* a path is returned although a second candidate exists, 4 points behind
C4_Witness ==
    /\ sc.pc = "done"
    /\ sc.result # Null
    /\ \E i, j \in ScCandidates : i # j /\ ScIsBest(i) /\ ScScore(i) - ScScore(j) = 4

(***************************************************************************)
(* mapping_table.c: try_map_unc_with_table                                 *)
(***************************************************************************)
MaxRules == 3

MAP_DRIVE == "MAP_DRIVE"
MAP_UNC   == "MAP_UNC"

\* strncmp(uncPath, e->unc, n) == 0 without the boundary check
UncRuleMatches_NoBoundary(uncPath, e) ==
    StartsWith(uncPath, e.unc)

\* lines 67-75: the rule's root is a prefix of uncPath that ends at the end of
\* uncPath or before a '/'
UncRuleMatches(uncPath, e) ==
    /\ StartsWith(uncPath, e.unc)
    /\ (Len(uncPath) = Len(e.unc) \/ uncPath[Len(e.unc) + 1] = "/")

\* the loop of lines 59-80 from entry i on: the index of best (0: NULL)
RECURSIVE UncBest(_, _, _, _)
UncBest(uncPath, maps, i, best) ==
    IF i > Len(maps) THEN best
    ELSE LET e       == maps[i]
             bestLen == IF best = 0 THEN 0 ELSE Len(maps[best].unc)
         IN IF e.type # MAP_UNC \/ e.unc = <<>> \/ Len(e.unc) <= bestLen
            THEN UncBest(uncPath, maps, i + 1, best)
            ELSE IF UncRuleMatches(uncPath, e)
                 THEN UncBest(uncPath, maps, i + 1, i)
                 ELSE UncBest(uncPath, maps, i + 1, best)

try_map_unc_with_table(uncPath, maps, existing) ==
    IF ~StartsWith(uncPath, <<"/", "/">>) THEN Null
    ELSE LET best == UncBest(uncPath, maps, 1, 0) IN
         IF best = 0 THEN Null
         ELSE LET rest      == From(uncPath, Len(maps[best].unc) + 1)
                  candidate == maps[best].prefix \o rest
              IN IF candidate \in existing THEN candidate ELSE Null

DriveRule(d, pfx) == [type |-> MAP_DRIVE, drive |-> d, unc |-> <<>>, prefix |-> pfx]
UncRule(root, pfx) == [type |-> MAP_UNC, drive |-> "", unc |-> root, prefix |-> pfx]

TableRules ==
    { UncRule(<<"/", "/", "s", "r", "v", "/", "s", "h", "a", "r", "e">>, <<"/", "m", "n", "t", "/", "a">>),
      UncRule(<<"/", "/", "s", "r", "v", "/", "s", "h", "a", "r", "e", "/", "s", "u", "b">>, <<"/", "m", "n", "t", "/", "b">>),
      UncRule(<<"/", "/", "s", "e", "r", "v", "e", "r", "/", "s", "h", "a", "r", "e">>, <<"/", "m", "n", "t", "/", "c">>),
      UncRule(<<"/", "/", "s", "r", "v", "/", "s", "h", "a", "r", "e">>, <<"/", "m", "n", "t", "/", "z">>),
      DriveRule("C", <<"/", "m", "n", "t", "/", "d">>) }

TableUncArgs ==
    { <<"/", "/", "s", "r", "v", "/", "s", "h", "a", "r", "e", "/", "s", "u", "b", "/", "x", ".", "t", "x", "t">>, <<"/", "/", "s", "r", "v", "/", "s", "h", "a", "r", "e", "/", "o", "t", "h", "e", "r", "/", "x", ".", "t", "x", "t">>, <<"/", "/", "s", "e", "r", "v", "e", "r", "/", "s", "h", "a", "r", "e", "X">>,
      <<"/", "/", "s", "r", "v", "/", "s", "h", "a", "r", "e">>, <<"/", "s", "r", "v", "/", "s", "h", "a", "r", "e">> }

TablePaths ==
    { <<"/", "m", "n", "t", "/", "b", "/", "x", ".", "t", "x", "t">>, <<"/", "m", "n", "t", "/", "a", "/", "o", "t", "h", "e", "r", "/", "x", ".", "t", "x", "t">>, <<"/", "m", "n", "t", "/", "a", "/", "s", "u", "b", "/", "x", ".", "t", "x", "t">>, <<"/", "m", "n", "t", "/", "c", "X">> }

TableInit ==
    \E u \in TableUncArgs, ms \in SeqsUpTo(TableRules, MaxRules), ex \in SUBSET TablePaths :
        tb = [pc |-> "call", uncPath |-> u, maps |-> ms, existing |-> ex, result |-> Null]

table_unc_call ==
    /\ tb.pc = "call"
    /\ tb' = [tb EXCEPT !.pc = "done",
                        !.result = try_map_unc_with_table(tb.uncPath, tb.maps, tb.existing)]
    /\ UNCHANGED otherThanTb

InitTable == TableInit /\ CacheOff /\ sc = Off /\ mf = Off /\ eng = Off /\ u16 = Off
    /\ un = Off /\ bt = Off /\ pl = Off /\ bm = Off /\ rd = Off /\ cm = Off
NextTable == table_unc_call
SpecTable == InitTable /\ [][NextTable]_vars

\* ---- the claim's vocabulary
\* the UNC rules whose root is a prefix of the input ending at its end or before a '/'
TbMatching ==
    { i \in 1..Len(tb.maps) :
        /\ tb.maps[i].type = MAP_UNC
        /\ \E n \in 1..Len(tb.uncPath) :
              /\ SubSeq(tb.uncPath, 1, n) = tb.maps[i].unc
              /\ (n = Len(tb.uncPath) \/ tb.uncPath[n + 1] = "/") }

\* the longest of them, the first in table order when several have that root
TbSelected(i) ==
    /\ i \in TbMatching
    /\ \A j \in TbMatching : Len(tb.maps[j].unc) <= Len(tb.maps[i].unc)
    /\ \A j \in TbMatching : Len(tb.maps[j].unc) = Len(tb.maps[i].unc) => i <= j

TbMapped(i) ==
    tb.maps[i].prefix \o SubSeq(tb.uncPath, Len(tb.maps[i].unc) + 1, Len(tb.uncPath))

\* C5: try_map_unc_with_table selects, among the UNC rules whose root is a
\* prefix of the input ending at the end of the input or before a '/', the
\* rule with the longest root (the first of them in table order), and
\* returns that rule's prefix followed by the remainder when that path
\* exists, and no match otherwise; a rule for //server/share never matches
\* //server/shareX.
C5_LongestRootWins ==
    (tb.pc = "done" /\ StartsWith(tb.uncPath, <<"/", "/">>)) =>
        /\ TbMatching = {} => tb.result = Null
        /\ \A i \in TbMatching : TbSelected(i) =>
              tb.result = IF TbMapped(i) \in tb.existing THEN TbMapped(i) ELSE Null
        /\ tb.uncPath = <<"/", "/", "s", "e", "r", "v", "e", "r", "/", "s", "h", "a", "r", "e", "X">> => tb.result = Null

\* the spec's example: both rules loaded, //srv/share/sub/x.txt maps to /mnt/b/x.txt
C5_Witness ==
    /\ tb.pc = "done"
    /\ tb.uncPath = <<"/", "/", "s", "r", "v", "/", "s", "h", "a", "r", "e", "/", "s", "u", "b", "/", "x", ".", "t", "x", "t">>
    /\ \E i, j \in 1..Len(tb.maps) :
          /\ tb.maps[i] = UncRule(<<"/", "/", "s", "r", "v", "/", "s", "h", "a", "r", "e">>, <<"/", "m", "n", "t", "/", "a">>)
          /\ tb.maps[j] = UncRule(<<"/", "/", "s", "r", "v", "/", "s", "h", "a", "r", "e", "/", "s", "u", "b">>, <<"/", "m", "n", "t", "/", "b">>)
    /\ tb.result = <<"/", "m", "n", "t", "/", "b", "/", "x", ".", "t", "x", "t">>

(***************************************************************************)
(* unc.c: normalize_unc; str.c: str_trim; fs.c: normalize_backslashes      *)
(***************************************************************************)
normalize_backslashes(s) == [i \in 1..Len(s) |-> IF s[i] = "\\" THEN "/" ELSE s[i]]

\* strip trailing slashes while more than two characters are left
RECURSIVE StripTrailingSlashes(_)
StripTrailingSlashes(buf) ==
    IF Len(buf) > 2 /\ buf[Len(buf)] = "/"
    THEN StripTrailingSlashes(SubSeq(buf, 1, Len(buf) - 1))
    ELSE buf

\* the two leading slashes of the argument kept and two more put before them
normalize_unc_KeepLeading(s) == <<"/", "/">> \o normalize_backslashes(s)

normalize_unc(s) ==
    LET tmp == normalize_backslashes(s)
        p   == IF StartsWith(tmp, <<"/", "/">>) THEN From(tmp, 3) ELSE tmp
    IN StripTrailingSlashes(<<"/", "/">> \o p)

isspace(c) == c \in {" ", "\t", "\n", "\r"}

RECURSIVE LTrim(_)
LTrim(s) == IF s # <<>> /\ isspace(s[1]) THEN LTrim(Tail(s)) ELSE s

RECURSIVE RTrim(_)
RTrim(s) == IF s # <<>> /\ isspace(s[Len(s)]) THEN RTrim(SubSeq(s, 1, Len(s) - 1)) ELSE s

str_trim(s) == RTrim(LTrim(s))

UpperCase == <<"A", "B", "C", "D", "E", "F", "G", "H", "I", "J", "K", "L", "M", "N", "O", "P", "Q", "R", "S", "T", "U", "V", "W", "X", "Y", "Z">>
LowerCase == <<"a", "b", "c", "d", "e", "f", "g", "h", "i", "j", "k", "l", "m", "n", "o", "p", "q", "r", "s", "t", "u", "v", "w", "x", "y", "z">>

isalpha(c) == \E i \in 1..26 : c = UpperCase[i] \/ c = LowerCase[i]

tolower(c) == IF \E i \in 1..26 : c = UpperCase[i]
              THEN LowerCase[CHOOSE i \in 1..26 : c = UpperCase[i]]
              ELSE c

toupper(c) ==
    CASE c = "a" -> "A" [] c = "b" -> "B" [] c = "c" -> "C" [] c = "d" -> "D"
      [] c = "f" -> "F" [] c = "m" -> "M" [] c = "z" -> "Z" [] c = "e" -> "E"
      [] c = "h" -> "H" [] c = "i" -> "I" [] c = "l" -> "L" [] c = "n" -> "N"
      [] c = "o" -> "O" [] c = "p" -> "P" [] c = "r" -> "R" [] c = "s" -> "S"
      [] c = "t" -> "T" [] c = "u" -> "U" [] c = "v" -> "V" [] c = "x" -> "X"
      [] c = "y" -> "Y" [] OTHER -> c

(***************************************************************************)
(* mapping_file.c: is_prefix_dangerous, load_map_file, append_drive_map_file*)
(***************************************************************************)
MaxFileLines == 2
MaxAppends == 1

\* the test of line 50 for one entry of bad[]
UnderRoot(pfx, bad) ==
    StartsWith(pfx, bad) /\ (Len(pfx) = Len(bad) \/ pfx[Len(bad) + 1] = "/")

\* a shorter list of roots and no /run/media carve-out
is_prefix_dangerous_ShortList(pfx) ==
    \/ pfx = <<>>
    \/ pfx = <<"/">>
    \/ \E bad \in { <<"/", "p", "r", "o", "c">>, <<"/", "s", "y", "s">>, <<"/", "d", "e", "v">> } : UnderRoot(pfx, bad)

is_prefix_dangerous(pfx) ==
    IF pfx = <<>> THEN TRUE
    ELSE IF pfx = <<"/">> THEN TRUE
    ELSE IF StartsWith(pfx, <<"/", "r", "u", "n", "/", "m", "e", "d", "i", "a", "/">>) THEN FALSE
    ELSE \E bad \in { <<"/", "p", "r", "o", "c">>, <<"/", "s", "y", "s">>, <<"/", "d", "e", "v">>, <<"/", "r", "u", "n">>, <<"/", "s", "n", "a", "p">>, <<"/", "v", "a", "r", "/", "l", "i", "b", "/", "s", "n", "a", "p", "d">> } :
            UnderRoot(pfx, bad)

\* what load_map_file does with one line: the MapList after it
LoadLine(line, out) ==
    LET s == str_trim(line) IN
    IF s = <<>> \/ s[1] = "#" THEN out
    ELSE IF Len(s) >= 3 /\ isalpha(s[1]) /\ s[2] = ":" /\ s[3] = "="
         THEN LET prefix == str_trim(From(s, 4)) IN
              IF prefix = <<>> THEN out
              ELSE IF is_prefix_dangerous(prefix) THEN out
              ELSE Append(out, DriveRule(toupper(s[1]), prefix))
         ELSE LET eq == StrChr(s, "=") IN
              IF eq = 0 THEN out
              ELSE LET left  == str_trim(SubSeq(s, 1, eq - 1))
                       right == str_trim(From(s, eq + 1))
                   IN IF left = <<>> \/ right = <<>> THEN out
                      ELSE IF is_prefix_dangerous(right) THEN out
                      ELSE Append(out, UncRule(normalize_unc(left), right))

\* prefixes a mapping file or a caller may name
FilePrefixes ==
    { <<"/">>, <<"/", "p", "r", "o", "c">>, <<"/", "p", "r", "o", "c", "/", "1">>, <<"/", "s", "y", "s", "/", "f", "s">>, <<"/", "d", "e", "v">>, <<"/", "r", "u", "n">>, <<"/", "r", "u", "n", "/", "u", "s", "e", "r", "/", "1">>,
      <<"/", "r", "u", "n", "/", "m", "e", "d", "i", "a">>, <<"/", "r", "u", "n", "/", "m", "e", "d", "i", "a", "/", "u", "/", "D">>, <<"/", "s", "n", "a", "p", "/", "x">>, <<"/", "v", "a", "r", "/", "l", "i", "b", "/", "s", "n", "a", "p", "d", "/", "x">>,
      <<"/", "m", "n", "t", "/", "a">>, <<"/", "d", "e", "v", "i", "c", "e", "s">> }

FileLines ==
    { <<"C", ":", "=">> \o p : p \in FilePrefixes }
    \cup { <<"\\", "\\", "s", "\\", "h", "=">> \o p : p \in FilePrefixes }
    \cup { <<" ", "d", ":", "=", " ", "/", "p", "r", "o", "c", " ", "\n">>, <<"#", " ", "C", ":", "=", "/", "m", "n", "t", "/", "a">>, <<>>, <<"C", ":", "=">>, <<"n", "o", " ", "r", "u", "l", "e">>, <<"C", ":", " ", "=", "/", "s", "y", "s">> }

MapFileInit ==
    \E ls \in SeqsUpTo(FileLines, MaxFileLines) :
        mf = [pc |-> "load", lines |-> ls, i |-> 1, maps |-> <<>>, appended |-> <<>>]

\* one iteration of the loop of load_map_file
load_map_line ==
    /\ mf.pc = "load"
    /\ mf.i <= Len(mf.lines)
    /\ mf' = [mf EXCEPT !.i = mf.i + 1, !.maps = LoadLine(mf.lines[mf.i], mf.maps)]
    /\ UNCHANGED otherThanMf

\* fgets returns NULL: fclose, return 1
load_map_eof ==
    /\ mf.pc = "load"
    /\ mf.i > Len(mf.lines)
    /\ mf' = [mf EXCEPT !.pc = "loaded"]
    /\ UNCHANGED otherThanMf

append_drive_map_file(drive, prefix) ==
    /\ mf.pc = "loaded"
    /\ Len(mf.appended) < MaxAppends
    /\ IF is_prefix_dangerous(prefix)
       THEN mf' = mf
       ELSE LET rule == <<toupper(drive), ":", "=">> \o prefix IN
            mf' = [mf EXCEPT !.lines = Append(mf.lines, rule),
                             !.appended = Append(mf.appended, rule)]
    /\ UNCHANGED otherThanMf

\* the next run of the program loads the file again into an empty MapList
load_map_again ==
    /\ mf.pc = "loaded"
    /\ mf.appended # <<>>
    /\ mf.i <= Len(mf.lines)
    /\ mf' = [mf EXCEPT !.pc = "load", !.i = 1, !.maps = <<>>]
    /\ UNCHANGED otherThanMf

InitMapFile == MapFileInit /\ CacheOff /\ sc = Off /\ tb = Off /\ eng = Off /\ u16 = Off
    /\ un = Off /\ bt = Off /\ pl = Off /\ bm = Off /\ rd = Off /\ cm = Off
NextMapFile ==
    \/ load_map_line
    \/ load_map_eof
    \/ \E d \in {"c", "D"}, p \in FilePrefixes : append_drive_map_file(d, p)
    \/ load_map_again
SpecMapFile == InitMapFile /\ [][NextMapFile]_vars

\* ---- the claim's vocabulary
DenyRoots == { <<"/", "p", "r", "o", "c">>, <<"/", "s", "y", "s">>, <<"/", "d", "e", "v">>, <<"/", "r", "u", "n">>, <<"/", "s", "n", "a", "p">>, <<"/", "v", "a", "r", "/", "l", "i", "b", "/", "s", "n", "a", "p", "d">> }

\* p equals / or lies under a denylisted root, /run/media/... excepted
Denylisted(p) ==
    /\ ~(\E n \in 1..Len(p) : SubSeq(p, 1, n) = <<"/", "r", "u", "n", "/", "m", "e", "d", "i", "a", "/">>)
    /\ \/ p = <<"/">>
       \/ \E r \in DenyRoots : p = r \/ (\E n \in 1..Len(p) : SubSeq(p, 1, n) = r \o <<"/">>)

UnderRunMedia(p) == \E n \in 1..Len(p) : SubSeq(p, 1, n) = <<"/", "r", "u", "n", "/", "m", "e", "d", "i", "a", "/">>

\* C6: after load_map_file on any mapping file and after any
\* append_drive_map_file call, no MappingTable entry and no appended rule has
\* a prefix that equals / or lies under /proc, /sys, /dev, /run, /snap or
\* /var/lib/snapd; a rule whose prefix lies under /run/media/ is accepted.
C6_NoDenylistedPrefix ==
    /\ \A i \in 1..Len(mf.maps) : ~Denylisted(mf.maps[i].prefix)
    /\ \A i \in 1..Len(mf.appended) : ~Denylisted(From(mf.appended[i], 4))
    /\ mf.pc = "loaded" =>
          \A i \in 1..(mf.i - 1) :
              \A p \in FilePrefixes :
                  (UnderRunMedia(p) /\ mf.lines[i] = <<"C", ":", "=">> \o p)
                      => \E j \in 1..Len(mf.maps) : mf.maps[j] = DriveRule("C", p)

\* a file naming /run/user/1 and /run/media/u/D was loaded, which gave the
\* second entry only, and a rule was appended
C6_Witness ==
    /\ mf.pc = "loaded"
    /\ \E i \in 1..(mf.i - 1) : mf.lines[i] = <<"C", ":", "=", "/", "r", "u", "n", "/", "u", "s", "e", "r", "/", "1">>
    /\ \E i \in 1..(mf.i - 1) : mf.lines[i] = <<"C", ":", "=", "/", "r", "u", "n", "/", "m", "e", "d", "i", "a", "/", "u", "/", "D">>
    /\ mf.maps = << DriveRule("C", <<"/", "r", "u", "n", "/", "m", "e", "d", "i", "a", "/", "u", "/", "D">>) >>
    /\ mf.appended # <<>>

(***************************************************************************)
(* unc.c: parse_unc_share, unc_to_smb_uri_encoded                          *)
(***************************************************************************)
\* the outputs of parse_unc_share; ok is its return value
parse_unc_share(unc) ==
    LET fail == [ok |-> FALSE, server |-> <<>>, share |-> <<>>, rest |-> <<>>] IN
    IF ~StartsWith(unc, <<"/", "/">>) THEN fail
    ELSE LET p  == From(unc, 3)
             s1 == StrChr(p, "/")
         IN IF s1 = 0 \/ s1 = 1 THEN fail
            ELSE LET p2  == From(p, s1 + 1)
                     s2  == StrChr(p2, "/")
                     nsh == IF s2 = 0 THEN Len(p2) ELSE s2 - 1
                 IN IF nsh = 0 THEN fail
                    ELSE [ok     |-> TRUE,
                          server |-> SubSeq(p, 1, s1 - 1),
                          share  |-> SubSeq(p2, 1, nsh),
                          rest   |-> IF s2 = 0 THEN <<>> ELSE From(p2, s2)]

\* what uri_encode_path writes for one character: '/' and the unreserved
\* characters as they are, the others as %XX
uri_encode_char(c) ==
    CASE c = " " -> <<"%", "2", "0">>
      [] c = "=" -> <<"%", "3", "D">>
      [] c = ":" -> <<"%", "3", "A">>
      [] c = "," -> <<"%", "2", "C">>
      [] c = "#" -> <<"%", "2", "3">>
      [] OTHER   -> <<c>>

uri_encode_path(s) == Concat([i \in 1..Len(s) |-> uri_encode_char(s[i])])

unc_to_smb_uri_encoded(unc) ==
    LET u == parse_unc_share(unc) IN
    IF ~u.ok THEN Null
    ELSE <<"s", "m", "b", ":", "/", "/">> \o u.server \o uri_encode_path(<<"/">> \o u.share \o u.rest)

(***************************************************************************)
(* gvfs.c: try_map_unc_via_gvfs                                            *)
(***************************************************************************)
\* strstr: index of the first occurrence of k in s, 0 when there is none
StrStr(s, k) ==
    LET at == { i \in 1..(Len(s) - Len(k) + 1) : SubSeq(s, i, i + Len(k) - 1) = k } IN
    IF at = {} THEN 0 ELSE CHOOSE i \in at : \A j \in at : i <= j

\* strcasecmp(a, b) == 0
strcasecmp_eq(a, b) ==
    Len(a) = Len(b) /\ \A i \in 1..Len(a) : toupper(a[i]) = toupper(b[i])

\* the value of key in a GVFS directory name, up to the next comma; <<>> is
\* the return value 0
gvfs_extract_kv(name, key) ==
    LET at == StrStr(name, key) IN
    IF at = 0 THEN <<>>
    ELSE LET p   == From(name, at + Len(key))
             end == StrChr(p, ",")
         IN IF end = 0 THEN p ELSE SubSeq(p, 1, end - 1)

\* /run/user/<uid>/gvfs
gvfs_base == <<"/", "r", "u", "n", "/", "u", "s", "e", "r", "/", "1", "/", "g", "v", "f", "s">>

\* the readdir loop from entry i on
RECURSIVE GvfsScan(_, _, _, _)
GvfsScan(u, entries, i, existing) ==
    IF i > Len(entries) THEN Null
    ELSE LET name      == entries[i]
             s_server  == gvfs_extract_kv(name, <<"s", "e", "r", "v", "e", "r", "=">>)
             s_share   == gvfs_extract_kv(name, <<"s", "h", "a", "r", "e", "=">>)
             candidate == gvfs_base \o <<"/">> \o name \o u.rest
         IN IF \/ name[1] = "."
               \/ ~StartsWith(name, <<"s", "m", "b", "-", "s", "h", "a", "r", "e", ":">>)
               \/ s_server = <<>> \/ s_share = <<>>
               \/ ~strcasecmp_eq(s_server, u.server)
               \/ ~strcasecmp_eq(s_share, u.share)
               \/ candidate \notin existing
            THEN GvfsScan(u, entries, i + 1, existing)
            ELSE candidate

\* entries: the names readdir returns for the GVFS directory
try_map_unc_via_gvfs(uncPath, entries, existing) ==
    LET u == parse_unc_share(uncPath) IN
    IF ~u.ok THEN Null ELSE GvfsScan(u, entries, 1, existing)

(***************************************************************************)
(* mounts.c: try_map_unc_to_cifs_mounts and the whole of                   *)
(* try_map_drive_to_mounts_scored; mapping_table.c: try_map_drive_with_table*)
(***************************************************************************)
RECURSIVE CifsScan(_, _, _, _)
CifsScan(u, mounts, i, existing) ==
    IF i > Len(mounts) THEN Null
    ELSE LET rec       == mounts[i]
             want      == <<"/", "/">> \o u.server \o <<"/">> \o u.share
             candidate == rec.mnt \o u.rest
         IN IF \/ rec.fst \notin {"cifs", "smb3"}
               \/ normalize_unc(rec.dev) # want
               \/ candidate \notin existing
            THEN CifsScan(u, mounts, i + 1, existing)
            ELSE candidate

try_map_unc_to_cifs_mounts(uncPath, mounts, existing) ==
    LET u == parse_unc_share(uncPath) IN
    IF ~u.ok THEN Null ELSE CifsScan(u, mounts, 1, existing)

RECURSIVE ScoredLoop(_, _, _, _, _)
ScoredLoop(loc, mounts, i, core, existing) ==
    IF i > Len(mounts) THEN loc
    ELSE ScoredLoop(ScoredStep(loc, mounts[i], core, existing), mounts, i + 1, core, existing)

try_map_drive_to_mounts_scored(winPath, mounts, existing) ==
    IF Len(winPath) < 3 \/ winPath[2] # ":" \/ winPath[3] # "/" THEN Null
    ELSE LET loc == ScoredLoop([bestScore |-> -1, secondBestScore |-> -1, bestPath |-> <<>>],
                               mounts, 1, From(winPath, 3), existing)
         IN ConfidenceGate(loc.bestScore, loc.secondBestScore, loc.bestPath)

RECURSIVE DriveScan(_, _, _, _, _)
DriveScan(drive, core, maps, i, existing) ==
    IF i > Len(maps) THEN Null
    ELSE LET e == maps[i] IN
         IF \/ e.type # MAP_DRIVE
            \/ e.drive # drive
            \/ e.prefix = <<>>
            \/ (e.prefix \o core) \notin existing
         THEN DriveScan(drive, core, maps, i + 1, existing)
         ELSE e.prefix \o core

try_map_drive_with_table(winPath, maps, existing) ==
    IF Len(winPath) < 3 THEN Null
    ELSE IF ~isalpha(winPath[1]) \/ winPath[2] # ":" \/ winPath[3] # "/" THEN Null
    ELSE DriveScan(toupper(winPath[1]), From(winPath, 3), maps, 1, existing)

(***************************************************************************)
(* mapping_file.c as main.c uses it: the whole of load_map_file and the    *)
(* two append functions, on the lines of the mapping file                  *)
(***************************************************************************)
RECURSIVE LoadLines(_, _, _)
LoadLines(lines, i, out) ==
    IF i > Len(lines) THEN out
    ELSE LoadLines(lines, i + 1, LoadLine(lines[i], out))

\* the MapList load_map_file fills from a file holding lines
load_map_file(lines) == LoadLines(lines, 1, <<>>)

\* the lines of the mapping file after append_drive_map_file(path, drive, prefix)
DriveRuleAppended(lines, drive, prefix) ==
    IF is_prefix_dangerous(prefix) THEN lines
    ELSE Append(lines, <<toupper(drive), ":", "=">> \o prefix)

\* the lines of the mapping file after append_unc_map_file(path, unc_root,
\* prefix): the rule "//server/share=prefix" with the root in canonical form,
\* unless the prefix is on the denylist
append_unc_map_file(lines, unc_root, prefix) ==
    IF is_prefix_dangerous(prefix) THEN lines
    ELSE Append(lines, normalize_unc(unc_root) \o <<"=">> \o prefix)

(***************************************************************************)
(* main.c: the helpers of handle_one_lnk                                   *)
(***************************************************************************)
main_is_prefix_dangerous(pfx) ==
    IF pfx = <<>> THEN TRUE
    ELSE IF pfx = <<"/">> THEN TRUE
    ELSE \E bad \in { <<"/", "p", "r", "o", "c">>, <<"/", "s", "y", "s">>, <<"/", "d", "e", "v">> } : UnderRoot(pfx, bad)

is_probably_system_mount(mnt) ==
    \/ mnt = <<>>
    \/ mnt = <<"/">>
    \/ StartsWith(mnt, <<"/", "p", "r", "o", "c">>)
    \/ StartsWith(mnt, <<"/", "s", "y", "s">>)
    \/ StartsWith(mnt, <<"/", "d", "e", "v">>)
    \/ StartsWith(mnt, <<"/", "s", "n", "a", "p">>)
    \/ StartsWith(mnt, <<"/", "v", "a", "r", "/", "l", "i", "b", "/", "s", "n", "a", "p">>)

looks_like_drive_path(p) ==
    Len(p) >= 3 /\ isalpha(p[1]) /\ p[2] = ":" /\ p[3] = "/"

looks_like_unc_path(p) == StartsWith(p, <<"/", "/">>)

join_prefix_and_rest(prefix, rest) ==
    IF prefix = <<>> THEN Null
    ELSE IF rest = <<>> THEN prefix
    ELSE LET pfx_slash  == prefix[Len(prefix)] = "/"
             rest_slash == rest[1] = "/"
         IN IF pfx_slash /\ rest_slash
            THEN SubSeq(prefix, 1, Len(prefix) - 1) \o rest
            ELSE IF ~pfx_slash /\ ~rest_slash
                 THEN prefix \o <<"/">> \o rest
                 ELSE prefix \o rest

\* the strings collect_mountpoints returns: the mount points of /proc/mounts
\* that are not system mounts and the entries of the GVFS directory.  The
\* list is sorted for presentation only; it is kept as a set.
collect_mountpoints(mounts, gvfs) ==
    { mounts[i].mnt : i \in { j \in 1..Len(mounts) :
                                /\ ~is_probably_system_mount(mounts[j].mnt)
                                /\ mounts[j].mnt[1] = "/" } }
    \cup { gvfs_base \o <<"/">> \o gvfs[i] : i \in { j \in 1..Len(gvfs) : gvfs[j][1] # "." } }

filter_mountpoints_for_rest(mnts, rest, existing) ==
    { m \in mnts : join_prefix_and_rest(m, rest) \in existing }

\* cache_get_prefix_for_lnk and cache_set_prefix_for_lnk called by a single
\* process: the result of the one, the store after the other
cache_get_prefix_for_lnk(store, lnk_abs_path) ==
    IF lnk_abs_path = Null \/ lnk_abs_path = <<>> THEN Null
    ELSE IF store = Null THEN Null
    ELSE GetScan(FgetsLines(store), lnk_abs_path, Null)

cache_set_prefix_for_lnk(store, lnk_abs_path, prefix) ==
    IF lnk_abs_path = Null \/ lnk_abs_path = <<>> \/ prefix = <<>> THEN store
    ELSE RewriteBytes(IF store = Null THEN <<>> ELSE store, lnk_abs_path, prefix)

(***************************************************************************)
(* main.c: main and handle_one_lnk.  A run of the program handles one      *)
(* shortcut; under SpecRerun the program is run again on the same shortcut *)
(* with the file system as it was.  lnk_abs is never NULL (strdup          *)
(* succeeds).  The                                                         *)
(* desktop opener is a function of the path: open_with_desktop returns 0   *)
(* on the members of eng.opens.                                            *)
(***************************************************************************)
MaxRuns == 2
MaxPrompts == 2

DriveTarget == <<"C", ":", "/", "f">>
UncTarget   == <<"/", "/", "s", "/", "h", "/", "f">>
Targets     == {DriveTarget, UncTarget}
LnkPaths    == {<<"/", "l">>, <<"/", "a", "=", "b">>}
MapPath     == <<"m">>

PD == <<"/", "m", "n", "t", "/", "d">>
PE == <<"/", "m", "n", "t", "/", "e">>
GvfsName == <<"s", "m", "b", "-", "s", "h", "a", "r", "e", ":", "s", "e", "r", "v", "e", "r", "=", "s", ",", "s", "h", "a", "r", "e", "=", "h">>
PG == gvfs_base \o <<"/">> \o GvfsName
SmbUri == <<"s", "m", "b", ":", "/", "/", "s", "/", "h", "/", "f">>
\* a directory of the snap tree, offered to a drive target on a machine
\* without GVFS entries
PS == <<"/", "s", "n", "a", "p", "/", "c">>
SnapDirs(t, gv) == IF looks_like_drive_path(t) /\ gv = <<>> THEN {PS} ELSE {}

EngMountLists ==
    { <<>>,
      << [dev |-> <<"/", "d", "e", "v", "/", "s", "d", "a", "1">>, mnt |-> PD, fst |-> "ntfs"],
         [dev |-> <<"/", "/", "s", "/", "h">>,     mnt |-> PE, fst |-> "cifs"] >> }

\* the files that may exist: the joined candidates and, for a UNC target, the
\* target string read as a local path
FilesFor(t, gv) ==
    {PD \o <<"/", "f">>, PE \o <<"/", "f">>}
    \cup (IF gv # <<>> THEN {PG \o <<"/", "f">>} ELSE {})
    \cup (IF looks_like_unc_path(t) THEN {t} ELSE {})
    \cup { d \o <<"/", "f">> : d \in SnapDirs(t, gv) }

UrisFor(t) == IF looks_like_unc_path(t) THEN {SmbUri} ELSE {}

CacheStores(l) == { Null, l \o <<"=">> \o PD \o <<NL>> }

MapFiles == { <<>>, << <<"C", ":", "=", "/", "m", "n", "t", "/", "e">>, <<"/", "/", "s", "/", "h", "=", "/", "m", "n", "t", "/", "e">> >> }

MANUAL == <<"_", "_", "M", "A", "N", "U", "A", "L", "_", "_">>

EngInit ==
    \E t \in Targets, l \in LnkPaths, mp \in {Null, MapPath},
       ms \in EngMountLists, gv \in {<<>>, <<GvfsName>>} :
      \E fs \in SUBSET FilesFor(t, gv) :
        \E op \in SUBSET (fs \cup UrisFor(t)), c \in CacheStores(l),
           lines \in (IF mp = Null THEN {<<>>} ELSE MapFiles) :
          eng = [target |-> t, lnk_abs |-> l, map_path |-> mp,
                 files |-> fs,
                 dirs |-> {PD, PE} \cup (IF gv # <<>> THEN {PG} ELSE {}) \cup SnapDirs(t, gv),
                 opens |-> op, mounts |-> ms, gvfs |-> gv,
                 cache |-> c, mapfile |-> lines,
                 run |-> 1, pc |-> "main", maps |-> <<>>, trace |-> <<>>,
                 result |-> -1, choices |-> {}, prompts |-> 0,
                 assisted |-> Null, prevAssisted |-> Null, cancelled |-> "none",
                 cache0 |-> c]

\* path_exists and path_is_dir on the file system of the run
Existing == eng.files \cup eng.dirs
path_is_dir(p) == p \in eng.dirs

open_with_desktop(path_or_uri) ==
    IF path_or_uri = <<>> THEN -1
    ELSE IF path_or_uri \in eng.opens THEN 0 ELSE -1

try_open_path(cand) ==
    IF cand = Null \/ cand = <<>> THEN -1
    ELSE IF cand \notin Existing THEN -1
    ELSE open_with_desktop(cand)

try_open_uri(uri) ==
    IF uri = Null \/ uri = <<>> THEN -1 ELSE open_with_desktop(uri)

\* "if (rc == 0) goto ok;": where control goes after an attempt
AfterTry_Ignored(rc, next) == next

AfterTry(rc, next) == IF rc = 0 THEN "ok" ELSE next

\* the UNC block entered whatever the target looks like
AfterCache_AlwaysUnc == "unc_table"

\* the blocks of handle_one_lnk after step 0, after step 1 and after step 2
AfterUnc   == IF looks_like_drive_path(eng.target) THEN "drive_table" ELSE "fail"
AfterCache == IF looks_like_unc_path(eng.target) THEN "unc_table" ELSE AfterUnc
AfterRaw   ==
    IF (looks_like_drive_path(eng.target) \/ looks_like_unc_path(eng.target))
       /\ eng.lnk_abs # Null
    THEN "cache" ELSE AfterCache

\* the trace after a strategy was consulted: its candidate (Null: none) and
\* the outcome of the attempt to open it
Consulted(stage, cand, rc) ==
    Append(eng.trace, [stage |-> stage, cand |-> cand, rc |-> rc])

\* main, lines 1270-1273: the mapping table is loaded once
main_load_map ==
    /\ eng.pc = "main"
    /\ eng' = [eng EXCEPT !.pc = "raw",
                          !.maps = IF eng.map_path = Null THEN <<>>
                                   ELSE load_map_file(eng.mapfile)]
    /\ UNCHANGED otherThanEng

\* step 0, lines 773-776
stage_raw_posix ==
    /\ eng.pc = "raw"
    /\ IF eng.target[1] = "/"
       THEN LET rc == try_open_path(eng.target) IN
            eng' = [eng EXCEPT !.trace = Consulted("Raw", eng.target, rc),
                               !.pc = AfterTry(rc, AfterRaw)]
       ELSE eng' = [eng EXCEPT !.pc = AfterRaw]
    /\ UNCHANGED otherThanEng

\* the candidate of step 1 for the prefix the cache holds
CacheCandidate(pfx) ==
    IF looks_like_drive_path(eng.target)
    THEN join_prefix_and_rest(pfx, From(eng.target, 3))
    ELSE LET u == parse_unc_share(normalize_unc(eng.target)) IN
         IF u.ok THEN join_prefix_and_rest(pfx, u.rest) ELSE Null

\* step 1, lines 778-815
stage_cache ==
    /\ eng.pc = "cache"
    /\ LET pfx == cache_get_prefix_for_lnk(eng.cache, eng.lnk_abs) IN
       IF pfx = Null \/ pfx = <<>>
       THEN eng' = [eng EXCEPT !.trace = Consulted("Cached", Null, -1),
                               !.pc = AfterCache]
       ELSE LET cand == CacheCandidate(pfx)
                rc   == try_open_path(cand)
            IN eng' = [eng EXCEPT !.trace = Consulted("Cached", cand, rc),
                                  !.pc = AfterTry(rc, AfterCache)]
    /\ UNCHANGED otherThanEng

\* ---- step 2, UNC resolution, lines 817-1022
Canon == normalize_unc(eng.target)

stage_unc_table ==
    /\ eng.pc = "unc_table"
    /\ LET mapped == try_map_unc_with_table(Canon, eng.maps, Existing)
           rc     == try_open_path(mapped)
       IN eng' = [eng EXCEPT !.trace = Consulted("TableMatched", mapped, rc),
                             !.pc = AfterTry(rc, "unc_gvfs")]
    /\ UNCHANGED otherThanEng

stage_unc_gvfs ==
    /\ eng.pc = "unc_gvfs"
    /\ LET gv == try_map_unc_via_gvfs(Canon, eng.gvfs, Existing)
           rc == try_open_path(gv)
       IN eng' = [eng EXCEPT !.trace = Consulted("ShareLocatedSession", gv, rc),
                             !.pc = AfterTry(rc, "unc_cifs")]
    /\ UNCHANGED otherThanEng

stage_unc_cifs ==
    /\ eng.pc = "unc_cifs"
    /\ LET cifs == try_map_unc_to_cifs_mounts(Canon, eng.mounts, Existing)
           rc   == try_open_path(cifs)
       IN eng' = [eng EXCEPT
               !.trace = Consulted("ShareLocatedMounts", cifs, rc),
               !.pc = AfterTry(rc, IF eng.lnk_abs # Null /\ parse_unc_share(Canon).ok
                                   THEN "unc_assist" ELSE "unc_smb")]
    /\ UNCHANGED otherThanEng

\* lines 847-884: the prefixes offered to the user
UncChoices ==
    LET u     == parse_unc_share(Canon)
        root  == <<"/", "/">> \o u.server \o <<"/">> \o u.share
        troot == try_map_unc_with_table(root, eng.maps, Existing)
        groot == try_map_unc_via_gvfs(root, eng.gvfs, Existing)
        croot == try_map_unc_to_cifs_mounts(root, eng.mounts, Existing)
        mnts  == collect_mountpoints(eng.mounts, eng.gvfs)
        good  == filter_mountpoints_for_rest(mnts, u.rest, Existing)
    IN ({troot, groot, croot} \ {Null}) \cup (IF good # {} THEN good ELSE mnts)

unc_assist_choices ==
    /\ eng.pc = "unc_assist"
    /\ eng' = [eng EXCEPT !.choices = UncChoices, !.prompts = 0,
                          !.trace = Consulted("Assist", Null, -1),
                          !.pc = "unc_prompt"]
    /\ UNCHANGED otherThanEng

\* what choose_mount_prefix_any may return for the list shown, and
\* pick_directory_any for the directories that exist
ChooserAnswers ==
    {Null, MANUAL} \cup { c \in eng.choices : c[1] = "/" /\ ~main_is_prefix_dangerous(c) }

DirAnswers ==
    {Null} \cup { d \in eng.dirs : d[1] = "/" /\ ~main_is_prefix_dangerous(d) }

\* the mapping file after the rule for the chosen prefix was appended
MapFileSaved(prefix) ==
    IF eng.map_path = Null THEN eng.mapfile
    ELSE IF looks_like_unc_path(eng.target)
         THEN LET u == parse_unc_share(Canon) IN
              append_unc_map_file(eng.mapfile, <<"/", "/">> \o u.server \o <<"/">> \o u.share, prefix)
         ELSE DriveRuleAppended(eng.mapfile, toupper(eng.target[1]), prefix)

\* one iteration of the for (;;) loops of lines 899-1008 and 1057-1159, the
\* user answering answer to the list and dir to the directory dialog; leave
\* is where control goes after the loop
AssistIteration(answer, dir, rest, leave) ==
    LET picked == IF eng.choices # {} THEN answer ELSE MANUAL
        prefix == IF picked = MANUAL THEN dir ELSE picked
        \* what the collaborator cancelled in this iteration: the list, the
        \* manual entry, or nothing
        c      == IF picked = Null THEN "list"
                  ELSE IF prefix = Null THEN "manual" ELSE "none"
        again  == [eng EXCEPT !.prompts = eng.prompts + 1, !.cancelled = c]
        out    == [eng EXCEPT !.pc = leave, !.cancelled = c]
    IN IF picked = Null THEN out
       ELSE IF prefix = Null THEN (IF eng.choices # {} THEN again ELSE out)
       ELSE IF prefix[1] # "/" \/ main_is_prefix_dangerous(prefix) \/ ~path_is_dir(prefix)
            THEN again
       ELSE LET cand == join_prefix_and_rest(prefix, rest) IN
            IF cand = Null \/ cand \notin Existing THEN again
            ELSE LET rc == try_open_path(cand) IN
                 [eng EXCEPT
                    !.cancelled = c,
                    !.mapfile = MapFileSaved(prefix),
                    !.cache = cache_set_prefix_for_lnk(eng.cache, eng.lnk_abs, prefix),
                    !.trace = [eng.trace EXCEPT ![Len(eng.trace)] =
                                  [stage |-> "Assist", cand |-> cand, rc |-> rc]],
                    !.prompts = eng.prompts + 1,
                    !.assisted = IF rc = 0 THEN prefix ELSE Null,
                    !.pc = AfterTry(rc, eng.pc)]

\* the user gives up at the latest at prompt MaxPrompts + 1
AnswersAt(n, answers) == IF n < MaxPrompts THEN answers ELSE {Null}

unc_assist_prompt ==
    /\ eng.pc = "unc_prompt"
    /\ \E answer \in AnswersAt(eng.prompts, ChooserAnswers),
          dir \in AnswersAt(eng.prompts, DirAnswers) :
           eng' = AssistIteration(answer, dir, parse_unc_share(Canon).rest, "unc_smb")
    /\ UNCHANGED otherThanEng

\* lines 1014-1020
stage_unc_smb ==
    /\ eng.pc = "unc_smb"
    /\ LET uri == unc_to_smb_uri_encoded(Canon)
           rc  == try_open_uri(uri)
       IN IF uri = Null
          THEN eng' = [eng EXCEPT !.pc = AfterUnc]
          ELSE eng' = [eng EXCEPT !.trace = Consulted("UriFallback", uri, rc),
                                  !.pc = AfterTry(rc, AfterUnc)]
    /\ UNCHANGED otherThanEng

\* ---- step 3, drive letter resolution, lines 1024-1164
stage_drive_table ==
    /\ eng.pc = "drive_table"
    /\ LET mapped == try_map_drive_with_table(eng.target, eng.maps, Existing)
           rc     == try_open_path(mapped)
       IN eng' = [eng EXCEPT !.trace = Consulted("TableMatched", mapped, rc),
                             !.pc = AfterTry(rc, "drive_mounts")]
    /\ UNCHANGED otherThanEng

stage_drive_mounts ==
    /\ eng.pc = "drive_mounts"
    /\ LET guess == try_map_drive_to_mounts_scored(eng.target, eng.mounts, Existing)
           rc    == try_open_path(guess)
       IN eng' = [eng EXCEPT
               !.trace = Consulted("MountMatched", guess, rc),
               !.pc = AfterTry(rc, IF eng.lnk_abs # Null THEN "drive_assist" ELSE "fail")]
    /\ UNCHANGED otherThanEng

\* lines 1041-1055: the items offered to the user
DriveChoices ==
    LET mnts == collect_mountpoints(eng.mounts, eng.gvfs)
        good == filter_mountpoints_for_rest(mnts, From(eng.target, 3), Existing)
    IN IF good # {} THEN good ELSE mnts

drive_assist_choices ==
    /\ eng.pc = "drive_assist"
    /\ eng' = [eng EXCEPT !.choices = DriveChoices, !.prompts = 0,
                          !.trace = Consulted("Assist", Null, -1),
                          !.pc = "drive_prompt"]
    /\ UNCHANGED otherThanEng

drive_assist_prompt ==
    /\ eng.pc = "drive_prompt"
    /\ \E answer \in AnswersAt(eng.prompts, ChooserAnswers),
          dir \in AnswersAt(eng.prompts, DirAnswers) :
           eng' = AssistIteration(answer, dir, From(eng.target, 3), "fail")
    /\ UNCHANGED otherThanEng

\* lines 1166-1207: no resolution, return 2
handle_fail ==
    /\ eng.pc = "fail"
    /\ eng' = [eng EXCEPT !.pc = "returned", !.result = 2]
    /\ UNCHANGED otherThanEng

\* the label ok, lines 1209-1215: return 0
handle_ok ==
    /\ eng.pc = "ok"
    /\ eng' = [eng EXCEPT !.pc = "returned", !.result = 0]
    /\ UNCHANGED otherThanEng

\* the program is run again on the same shortcut
main_again ==
    /\ eng.pc = "returned"
    /\ eng.run < MaxRuns
    /\ eng' = [eng EXCEPT !.run = eng.run + 1, !.pc = "main", !.maps = <<>>,
                          !.trace = <<>>, !.result = -1, !.choices = {},
                          !.prompts = 0, !.assisted = Null,
                          !.prevAssisted = eng.assisted, !.cancelled = "none",
                          !.cache0 = eng.cache]
    /\ UNCHANGED otherThanEng

InitEngine == EngInit /\ CacheOff /\ sc = Off /\ tb = Off /\ mf = Off /\ u16 = Off
    /\ un = Off /\ bt = Off /\ pl = Off /\ bm = Off /\ rd = Off /\ cm = Off
NextEngine ==
    \/ main_load_map
    \/ stage_raw_posix
    \/ stage_cache
    \/ stage_unc_table
    \/ stage_unc_gvfs
    \/ stage_unc_cifs
    \/ unc_assist_choices
    \/ unc_assist_prompt
    \/ stage_unc_smb
    \/ stage_drive_table
    \/ stage_drive_mounts
    \/ drive_assist_choices
    \/ drive_assist_prompt
    \/ handle_fail
    \/ handle_ok
SpecEngine == InitEngine /\ [][NextEngine]_vars

\* ---- the program run on a shortcut, then run again on it
NextRerun ==
    \/ NextEngine
    \/ main_again
SpecRerun == InitEngine /\ [][NextRerun]_vars

(***************************************************************************)
(* Claims about handle_one_lnk.                                            *)
(***************************************************************************)
\* the strategies consulted so far in this run, step 0 (the raw POSIX path)
\* left out
Strategies == SelectSeq(eng.trace, LAMBDA e : e.stage # "Raw")

UncOrder ==
    << "Cached", "TableMatched", "ShareLocatedSession", "ShareLocatedMounts",
       "Assist", "UriFallback" >>

DriveOrder == << "Cached", "TableMatched", "MountMatched", "Assist" >>

\* every attempt but the last one missed: no candidate, or none that exists,
\* or one that could not be opened
EarlierMissed == \A i \in 1..(Len(eng.trace) - 1) : eng.trace[i].rc # 0

\* C7: for a UNC-shaped target the strategies are consulted in the order
\* Cached, TableMatched, ShareLocated (session mounts), ShareLocated (OS
\* network mounts), assistance, UriFallback: the i-th strategy consulted is
\* the i-th of that list, it is consulted only when all attempts before it
\* missed, and the run returns success exactly when the last attempt opened
\* its candidate, after which nothing more is consulted.
C7_UncStrategyOrder ==
    looks_like_unc_path(eng.target) =>
        /\ Len(Strategies) <= Len(UncOrder)
        /\ \A i \in 1..Len(Strategies) : Strategies[i].stage = UncOrder[i]
        /\ EarlierMissed
        /\ eng.pc \in {"ok", "returned"} /\ eng.result # 2 =>
              eng.trace # <<>> /\ eng.trace[Len(eng.trace)].rc = 0
        /\ eng.trace # <<>> /\ eng.trace[Len(eng.trace)].rc = 0 =>
              eng.pc \in {"ok", "returned"} /\ eng.result # 2

\* all six strategies were consulted and the smb:// URI was opened
C7_Witness ==
    /\ looks_like_unc_path(eng.target)
    /\ eng.result = 0
    /\ Len(Strategies) = 6
    /\ Strategies[5].cand # Null
    /\ Strategies[6].rc = 0

\* C8: for a drive-shaped target the strategies are consulted in the order
\* Cached, TableMatched, MountMatched, assistance, each only when all
\* attempts before it missed; the run fails only when all four were
\* consulted and missed; none of the UNC strategies and no smb:// URI is
\* ever used.
C8_DriveStrategyOrder ==
    looks_like_drive_path(eng.target) =>
        /\ Len(eng.trace) <= Len(DriveOrder)
        /\ \A i \in 1..Len(eng.trace) : eng.trace[i].stage = DriveOrder[i]
        /\ EarlierMissed
        /\ eng.pc = "fail" \/ eng.result = 2 =>
              /\ Len(eng.trace) = Len(DriveOrder)
              /\ \A i \in 1..Len(eng.trace) : eng.trace[i].rc # 0
        /\ eng.pc \notin {"unc_table", "unc_gvfs", "unc_cifs", "unc_assist",
                          "unc_prompt", "unc_smb"}
        /\ \A i \in 1..Len(eng.trace) : ~StartsWith(eng.trace[i].cand, <<"s", "m", "b", ":", "/", "/">>)

\* a drive target failed after the cache, the table and the scorer missed
\* and the user was offered a choice, picked a prefix whose candidate could
\* not be opened, and gave up
C8_Witness ==
    /\ looks_like_drive_path(eng.target)
    /\ eng.result = 2
    /\ Len(eng.trace) = 4
    /\ eng.trace[1].cand # Null
    /\ eng.trace[4].cand # Null

\* C9: when the previous run on the shortcut succeeded through assistance
\* with prefix P, the cache holds P for the shortcut's absolute path, the
\* mapping file (when one is configured) has a rule with prefix P, and this
\* run succeeds at the Cached stage without asking the user.
C9_AssistedPrefixRemembered ==
    eng.prevAssisted # Null =>
        /\ eng.pc = "main" =>
              /\ cache_get_prefix_for_lnk(eng.cache, eng.lnk_abs) = eng.prevAssisted
              /\ eng.map_path # Null =>
                    \E i \in 1..Len(eng.mapfile) :
                        LET eq == StrChr(eng.mapfile[i], "=") IN
                        eq # 0 /\ From(eng.mapfile[i], eq + 1) = eng.prevAssisted
        /\ eng.pc = "returned" =>
              /\ eng.result = 0
              /\ Strategies[Len(Strategies)].stage = "Cached"
              /\ \A i \in 1..Len(eng.trace) : eng.trace[i].stage # "Assist"

(***************************************************************************)
(* lnk_io.c: lnk_utf16le_to_utf8.  Code units and bytes are numbers; the   *)
(* buffer wstr holds at least max_chars units.                             *)
(***************************************************************************)
MaxUnits == 3

\* a | b, a & 0x3F, a >> k, a << k on unsigned values
RECURSIVE BitOr(_, _)
BitOr(a, b) ==
    IF a = 0 THEN b
    ELSE IF b = 0 THEN a
    ELSE (IF a % 2 = 1 \/ b % 2 = 1 THEN 1 ELSE 0) + 2 * BitOr(a \div 2, b \div 2)

Low6(a) == a % 64
Shr(a, k) == a \div (2 ^ k)
\* on uint32_t; the operands are below 2^10 and k is 10, so nothing is lost
Shl(a, k) == a * (2 ^ k)

\* (char)x: the byte stored
Byte(x) == x % 256

\* the code point of a surrogate pair, lines 50-52, without the offset
PairCodePoint_NoOffset(wc, wc2) ==
    LET high == wc - 55296
        low  == wc2 - 56320
    IN BitOr(Shl(high, 10), low)

\* the code point of a surrogate pair, lines 50-52
PairCodePoint(wc, wc2) ==
    LET high == wc - 55296
        low  == wc2 - 56320
    IN 65536 + BitOr(Shl(high, 10), low)

\* the units a caller may pass: NUL, ASCII, a two-byte and a three-byte
\* character, and the edges of the two surrogate ranges
Units == {0, 65, 937, 8364, 55295, 55296, 56319, 56320, 57343, 57344}

U16Init ==
    \E w \in SeqsUpTo(Units, MaxUnits) :
      \E m \in 0..Len(w) :
        u16 = [pc |-> "call", wstr |-> w, max_chars |-> m, len |-> 0, i |-> 0,
               out |-> <<>>, chunks |-> <<>>]

\* lines 23-24: the number of units before the first NUL, at most max_chars
RECURSIVE U16Len(_, _, _)
U16Len(wstr, max_chars, len) ==
    IF len < max_chars /\ wstr[len + 1] # 0
    THEN U16Len(wstr, max_chars, len + 1)
    ELSE len

u16_measure ==
    /\ u16.pc = "call"
    /\ u16' = [u16 EXCEPT !.pc = "loop", !.len = U16Len(u16.wstr, u16.max_chars, 0)]
    /\ UNCHANGED otherThanU16

\* one iteration of the for loop, lines 35-91: the bytes written and the
\* number of units consumed
ConvertUnit(wstr, i, len) ==
    LET wc == wstr[i + 1] IN
    IF wc >= 55296 /\ wc <= 56319
    THEN IF i + 1 < len /\ wstr[i + 2] >= 56320 /\ wstr[i + 2] <= 57343
         THEN LET cp == PairCodePoint(wc, wstr[i + 2]) IN
              [bytes |-> << Byte(BitOr(240, Shr(cp, 18))),
                            Byte(BitOr(128, Low6(Shr(cp, 12)))),
                            Byte(BitOr(128, Low6(Shr(cp, 6)))),
                            Byte(BitOr(128, Low6(cp))) >>,
               units |-> 2]
         ELSE [bytes |-> <<239, 191, 189>>, units |-> 1]
    ELSE IF wc >= 56320 /\ wc <= 57343
    THEN [bytes |-> <<239, 191, 189>>, units |-> 1]
    ELSE IF wc < 128
    THEN [bytes |-> << Byte(wc) >>, units |-> 1]
    ELSE IF wc < 2048
    THEN [bytes |-> << Byte(BitOr(192, Shr(wc, 6))), Byte(BitOr(128, Low6(wc))) >>,
          units |-> 1]
    ELSE [bytes |-> << Byte(BitOr(224, Shr(wc, 12))),
                       Byte(BitOr(128, Low6(Shr(wc, 6)))),
                       Byte(BitOr(128, Low6(wc))) >>,
          units |-> 1]

u16_convert_unit ==
    /\ u16.pc = "loop"
    /\ u16.i < u16.len
    /\ LET c == ConvertUnit(u16.wstr, u16.i, u16.len) IN
       u16' = [u16 EXCEPT !.i = u16.i + c.units,
                          !.out = u16.out \o c.bytes,
                          !.chunks = Append(u16.chunks,
                                            [at |-> u16.i + 1, units |-> c.units,
                                             bytes |-> c.bytes])]
    /\ UNCHANGED otherThanU16

\* lines 93-94: the terminator is written, out is returned
u16_return ==
    /\ u16.pc = "loop"
    /\ u16.i >= u16.len
    /\ u16' = [u16 EXCEPT !.pc = "done"]
    /\ UNCHANGED otherThanU16

InitU16 == U16Init /\ CacheOff /\ sc = Off /\ tb = Off /\ mf = Off /\ eng = Off
    /\ un = Off /\ bt = Off /\ pl = Off /\ bm = Off /\ rd = Off /\ cm = Off
NextU16 == u16_measure \/ u16_convert_unit \/ u16_return
SpecU16 == InitU16 /\ [][NextU16]_vars

\* ---- the claim's vocabulary
IsHigh(u) == 55296 <= u /\ u <= 56319
IsLow(u)  == 56320 <= u /\ u <= 57343

\* the units converted: those before the first NUL, at most max_chars
Converted ==
    LET n == CHOOSE k \in 0..u16.max_chars :
                 /\ \A q \in 1..k : u16.wstr[q] # 0
                 /\ (k = u16.max_chars \/ u16.wstr[k + 1] = 0)
    IN SubSeq(u16.wstr, 1, n)

\* the 4-byte UTF-8 encoding of a code point of U+10000..U+10FFFF
Utf8Of4(cp) ==
    << 240 + (cp \div 262144),
       128 + ((cp \div 4096) % 64),
       128 + ((cp \div 64) % 64),
       128 + (cp % 64) >>

\* position p of s starts a pair: a high surrogate with a low surrogate next
PairAt(s, p) == p < Len(s) /\ IsHigh(s[p]) /\ IsLow(s[p + 1])

\* C10: in the output of lnk_utf16le_to_utf8, every high surrogate
\* immediately followed by a low surrogate is encoded, as one unit of
\* output, by the 4-byte UTF-8 encoding of
\* 0x10000 + ((high - 0xD800) << 10 | (low - 0xDC00)), and every other
\* surrogate (a high one followed by something else or by the end or the
\* bound, a low one not preceded by its high one) by EF BF BD; the output is
\* the concatenation of the encodings of the successive units.
C10_SurrogatesEncoded ==
    u16.pc = "done" =>
        LET s == Converted IN
        /\ u16.out = Concat([k \in 1..Len(u16.chunks) |-> u16.chunks[k].bytes])
        /\ \A p \in 1..Len(s) :
              PairAt(s, p) =>
                  \E k \in 1..Len(u16.chunks) :
                      /\ u16.chunks[k].at = p
                      /\ u16.chunks[k].units = 2
                      /\ u16.chunks[k].bytes =
                            Utf8Of4(65536 + (s[p] - 55296) * 1024 + (s[p + 1] - 56320))
        /\ \A p \in 1..Len(s) :
              ((IsHigh(s[p]) /\ ~PairAt(s, p))
                 \/ (IsLow(s[p]) /\ ~(p > 1 /\ PairAt(s, p - 1))))
                  => \E k \in 1..Len(u16.chunks) :
                         /\ u16.chunks[k].at = p
                         /\ u16.chunks[k].units = 1
                         /\ u16.chunks[k].bytes = <<239, 191, 189>>

\* the pair D800 DC00 gave F0 90 80 80 and the high surrogate DBFF, the last
\* unit before the bound, gave EF BF BD
C10_Witness ==
    /\ u16.pc = "done"
    /\ u16.wstr = <<55296, 56320, 56319>>
    /\ u16.max_chars = 3
    /\ u16.out = <<240, 144, 128, 128, 239, 191, 189>>

(***************************************************************************)
(* unc.c: normalize_unc followed by parse_unc_share, for every argument    *)
(* over a small alphabet                                                   *)
(***************************************************************************)
MaxUncLen == 7

UncAlphabet == {"\\", "/", "s", "h"}

UncInit ==
    \E s \in SeqsUpTo(UncAlphabet, MaxUncLen) :
        un = [pc |-> "call", s |-> s, canon |-> Null,
              parsed |-> [ok |-> FALSE, server |-> <<>>, share |-> <<>>, rest |-> <<>>]]

\* canon = normalize_unc(s)
unc_normalize ==
    /\ un # Off /\ un.pc = "call"
    /\ un' = [un EXCEPT !.pc = "canon", !.canon = normalize_unc(un.s)]
    /\ UNCHANGED otherThanUn

\* parse_unc_share(canon, server, sizeof(server), share, sizeof(share), &rest)
unc_parse ==
    /\ un # Off /\ un.pc = "canon"
    /\ un' = [un EXCEPT !.pc = "done", !.parsed = parse_unc_share(un.canon)]
    /\ UNCHANGED otherThanUn

InitUnc == UncInit /\ EarlierOff /\ bt = Off /\ pl = Off /\ bm = Off /\ rd = Off /\ cm = Off
NextUnc == unc_normalize \/ unc_parse
SpecUnc == InitUnc /\ [][NextUnc]_vars

\* ---- vocabulary of the claims about UNC strings
IsSep(c) == c \in {"\\", "/"}

\* index of the first separator of s, 0 when it has none
RECURSIVE FirstSep(_)
FirstSep(s) ==
    IF s = <<>> THEN 0
    ELSE IF IsSep(s[1]) THEN 1
    ELSE LET r == FirstSep(Tail(s)) IN IF r = 0 THEN 0 ELSE r + 1

\* the parts of s after its two leading separators
UncBody(s) == SubSeq(s, 3, Len(s))
UncServer(s) ==
    LET b == UncBody(s) i == FirstSep(b) IN IF i = 0 THEN b ELSE SubSeq(b, 1, i - 1)
UncAfterServer(s) ==
    LET b == UncBody(s) i == FirstSep(b) IN IF i = 0 THEN <<>> ELSE SubSeq(b, i + 1, Len(b))
UncShare(s) ==
    LET b == UncAfterServer(s) i == FirstSep(b) IN IF i = 0 THEN b ELSE SubSeq(b, 1, i - 1)
UncRemainder(s) ==
    LET b == UncAfterServer(s) i == FirstSep(b) IN IF i = 0 THEN <<>> ELSE SubSeq(b, i, Len(b))

\* s is \\server\share[\rest] or //server/share[/rest], server and share
\* not empty, one kind of separator throughout
ValidUnc(s) ==
    /\ Len(s) >= 5
    /\ IsSep(s[1]) /\ s[2] = s[1]
    /\ \A i \in 1..Len(s) : IsSep(s[i]) => s[i] = s[1]
    /\ UncServer(s) # <<>>
    /\ UncShare(s) # <<>>

\* a remaining path in canonical writing: slashes, no trailing slash
RECURSIVE NoTrailingSlash(_)
NoTrailingSlash(r) ==
    IF r # <<>> /\ r[Len(r)] = "/" THEN NoTrailingSlash(SubSeq(r, 1, Len(r) - 1)) ELSE r
CanonRemainder(s) ==
    LET r == UncRemainder(s) IN
    NoTrailingSlash([i \in 1..Len(r) |-> IF r[i] = "\\" THEN "/" ELSE r[i]])

HasNonSeparator(s) == \E i \in 1..Len(s) : ~IsSep(s[i])

CanonicalUnc(c) ==
    /\ Len(c) >= 3
    /\ c[1] = "/" /\ c[2] = "/" /\ c[3] # "/"
    /\ \A i \in 1..Len(c) : c[i] # "\\"
    /\ c[Len(c)] # "/"

C12_NormalizeUncCanonical ==
    (un.pc # "call" /\ HasNonSeparator(un.s)) => CanonicalUnc(un.canon)

(***************************************************************************)
(* lnk_target.c: build_best_target                                         *)
(***************************************************************************)
\* a C string that is not NULL and not ""
NonEmpty(s) == s # Null /\ s # <<>>

target_looks_like_drive_path(p) ==
    /\ p # Null /\ Len(p) >= 3
    /\ isalpha(p[1]) /\ p[2] = ":"
    /\ p[3] \in {"\\", "/"}

\* always 0
looks_like_drive_root_Never(p) == FALSE

looks_like_drive_root(p) ==
    /\ p # Null /\ Len(p) = 2
    /\ isalpha(p[1]) /\ p[2] = ":"

target_looks_like_unc_path(p) ==
    /\ p # Null /\ Len(p) >= 5
    /\ \/ p[1] = "\\" /\ p[2] = "\\"
       \/ p[1] = "/" /\ p[2] = "/"

normalize_unc_root(s) ==
    IF ~NonEmpty(s) THEN Null
    ELSE LET tmp == [i \in 1..Len(s) |-> IF s[i] = "/" THEN "\\" ELSE s[i]] IN
         IF Len(tmp) >= 2 /\ tmp[1] = "\\" /\ tmp[2] = "\\" THEN tmp
         ELSE IF tmp[1] = "\\" THEN <<"\\">> \o tmp
         ELSE <<"\\", "\\">> \o tmp

\* s may be shorter than pfx: the comparison then stops at the NUL of s
starts_with_ci(s, pfx) ==
    /\ s # Null /\ pfx # Null
    /\ \A i \in 1..Len(pfx) : i <= Len(s) /\ tolower(s[i]) = tolower(pfx[i])

join_win_paths(base, suffix) ==
    IF ~NonEmpty(base) THEN Null
    ELSE IF ~NonEmpty(suffix) THEN base
    ELSE LET nb == Len(base)
             ns == Len(suffix)
             need_sep == ~(base[nb] \in {"\\", "/"}) /\ ~(suffix[1] \in {"\\", "/"})
         IN IF nb >= ns /\ starts_with_ci(SubSeq(base, nb - ns + 1, nb), suffix) THEN base
            ELSE IF need_sep THEN base \o <<"\\">> \o suffix
            ELSE base \o suffix

\* ---- the LnkInfo records build_best_target is called with
LocalA == {Null, <<>>, <<"M", ":">>, <<"C", ":", "\\">>, <<"C", ":", "\\", "U", "s", "e", "r", "s", "\\", "m", "e">>, <<"C", ":", "\\", "D", "\\", "f">>, <<"d">>}
LocalU == {Null, <<>>, <<"C", ":", "\\", "u">>}
NetA   == {Null, <<>>, <<"\\", "\\", "S", "E", "R", "V", "E", "R", "\\", "S", "h", "a", "r", "e">>, <<"/", "/", "S", "/", "h">>, <<"S", "\\", "h">>, <<"\\", "S", "\\", "h">>, <<"\\", "\\", "S">>}
NetU   == {Null, <<>>, <<"\\", "\\", "U", "\\", "h">>}
DevA   == {Null, <<"M", ":">>}
DevU   == {Null, <<>>}
SufA   == {Null, <<>>, <<"f">>, <<"\\", "f">>, <<"d", "\\", "F">>, <<"D", "o", "c", "s", "\\", "a", ".", "t", "x", "t">>, <<"D", "o", "c", "u", "m", "e", "n", "t", "s", "\\", "f", "i", "l", "e", ".", "t", "x", "t">>}
SufU   == {Null, <<>>, <<"g">>}
\* workingDir, relativePath, idListPath
OtherFields == { <<Null, Null, Null>>, <<<<"w">>, <<"r">>, Null>>, <<Null, <<"r">>, Null>>,
                 <<Null, Null, <<"C", ":", "\\", "i">>>>, <<<<"w">>, <<"r">>, <<"C", ":", "\\", "i">>>>, <<<<>>, <<"r">>, <<"\\", "\\", "i", "\\", "j">>>> }

BtInit ==
    \E la \in LocalA, lu \in LocalU, na \in NetA, nu \in NetU,
       da \in DevA, du \in DevU, sa \in SufA, su \in SufU, o \in OtherFields :
        bt = [pc |-> "select",
              li |-> [localBasePath |-> la, localBasePathU |-> lu,
                      netName |-> na, netNameU |-> nu,
                      deviceName |-> da, deviceNameU |-> du,
                      commonPathSuffix |-> sa, commonPathSuffixU |-> su,
                      workingDir |-> o[1], relativePath |-> o[2], idListPath |-> o[3]],
              base_local |-> Null, base_net_raw |-> Null, base_dev |-> Null, suf |-> Null,
              base_net |-> Null, base |-> Null, candidate |-> Null, result |-> Null]

\* lines 172-182: the variant of each field, the normalized net name
bt_select ==
    /\ bt # Off /\ bt.pc = "select"
    /\ LET li  == bt.li
           raw == IF li.netNameU # Null THEN li.netNameU ELSE li.netName
           nrm == IF NonEmpty(raw) THEN normalize_unc_root(raw) ELSE Null
       IN bt' = [bt EXCEPT
              !.pc = "base",
              !.base_local = IF li.localBasePathU # Null THEN li.localBasePathU ELSE li.localBasePath,
              !.base_net_raw = raw,
              !.base_dev = IF li.deviceNameU # Null THEN li.deviceNameU ELSE li.deviceName,
              !.suf = IF li.commonPathSuffixU # Null THEN li.commonPathSuffixU
                      ELSE li.commonPathSuffix,
              !.base_net = IF NonEmpty(nrm) THEN nrm ELSE Null]
    /\ UNCHANGED otherThanBt

\* lines 184-200: the base
bt_choose_base ==
    /\ bt # Off /\ bt.pc = "base"
    /\ LET b0 == bt.base_local
           b1 == IF /\ NonEmpty(bt.base_net) /\ target_looks_like_unc_path(bt.base_net)
                    /\ \/ ~NonEmpty(b0)
                       \/ target_looks_like_drive_path(b0)
                       \/ looks_like_drive_root(b0)
                 THEN bt.base_net ELSE b0
           b2 == IF ~NonEmpty(b1) /\ NonEmpty(bt.base_dev) THEN bt.base_dev ELSE b1
       IN bt' = [bt EXCEPT !.pc = "join", !.base = b2]
    /\ UNCHANGED otherThanBt

\* lines 202-204: base and suffix
bt_join ==
    /\ bt # Off /\ bt.pc = "join"
    /\ LET c0 == IF NonEmpty(bt.base) /\ NonEmpty(bt.suf)
                 THEN join_win_paths(bt.base, bt.suf) ELSE Null
           c1 == IF c0 = Null /\ NonEmpty(bt.base) THEN bt.base ELSE c0
       IN bt' = [bt EXCEPT !.pc = "fallback", !.candidate = c1]
    /\ UNCHANGED otherThanBt

\* lines 206-216: working directory and relative path, relative path, suffix
bt_fallback ==
    /\ bt # Off /\ bt.pc = "fallback"
    /\ LET li == bt.li
           c2 == IF bt.candidate = Null /\ NonEmpty(li.workingDir) /\ NonEmpty(li.relativePath)
                 THEN li.workingDir \o <<"\\">> \o li.relativePath ELSE bt.candidate
           c3 == IF c2 = Null /\ NonEmpty(li.relativePath) THEN li.relativePath ELSE c2
           c4 == IF c3 = Null /\ NonEmpty(bt.suf) THEN bt.suf ELSE c3
       IN bt' = [bt EXCEPT !.pc = "override", !.candidate = c4]
    /\ UNCHANGED otherThanBt

\* lines 222-231: the path of the ID list instead of a candidate that is
\* neither a drive path nor a UNC path
bt_return ==
    /\ bt # Off /\ bt.pc = "override"
    /\ LET li == bt.li
           c  == bt.candidate
       IN bt' = [bt EXCEPT
              !.pc = "done",
              !.result =
                  IF /\ \/ c = Null
                        \/ ~target_looks_like_drive_path(c) /\ ~target_looks_like_unc_path(c)
                     /\ NonEmpty(li.idListPath)
                     /\ \/ target_looks_like_drive_path(li.idListPath)
                        \/ target_looks_like_unc_path(li.idListPath)
                  THEN li.idListPath ELSE c]
    /\ UNCHANGED otherThanBt

InitTarget == BtInit /\ EarlierOff /\ un = Off /\ pl = Off /\ bm = Off /\ rd = Off /\ cm = Off
NextTarget == bt_select \/ bt_choose_base \/ bt_join \/ bt_fallback \/ bt_return
SpecTarget == InitTarget /\ [][NextTarget]_vars

\* ---- vocabulary of the claims about build_best_target
RECURSIVE NoTrailingSeps(_)
NoTrailingSeps(s) ==
    IF s # <<>> /\ IsSep(s[Len(s)]) THEN NoTrailingSeps(SubSeq(s, 1, Len(s) - 1)) ELSE s

RECURSIVE NoLeadingSeps(_)
NoLeadingSeps(s) == IF s # <<>> /\ IsSep(s[1]) THEN NoLeadingSeps(Tail(s)) ELSE s

LowerOf(s) == [i \in 1..Len(s) |-> tolower(s[i])]

EndsWithCI(b, s) ==
    /\ Len(b) >= Len(s)
    /\ LowerOf(SubSeq(b, Len(b) - Len(s) + 1, Len(b))) = LowerOf(s)

\* base and suffix with exactly one separator between them
OneSeparatorJoin(b, s, r) ==
    \E sep \in {"\\", "/"} : r = NoTrailingSeps(b) \o <<sep>> \o NoLeadingSeps(s)

\* C13: when a base and a suffix are both present and non-empty,
\* build_best_target joins them with exactly one separator between base and
\* suffix, whatever separators the base ends with or the suffix starts with,
\* unless the base already ends with the suffix case-insensitively: then
\* the result of the join is the base alone.
C13_JoinExactlyOneSeparator ==
    (bt.pc = "fallback" /\ NonEmpty(bt.base) /\ NonEmpty(bt.suf)) =>
        IF EndsWithCI(bt.base, bt.suf) THEN bt.candidate = bt.base
        ELSE OneSeparatorJoin(bt.base, bt.suf, bt.candidate)

\* the net name written \\server\share: backslashes, two of them in front
UncRootForm(raw) ==
    <<"\\", "\\">> \o NoLeadingSeps([i \in 1..Len(raw) |-> IF raw[i] = "/" THEN "\\" ELSE raw[i]])

UncShaped(p) ==
    /\ Len(p) >= 5
    /\ IsSep(p[1]) /\ p[2] = p[1]

DriveRootShaped(p) == Len(p) = 2 /\ isalpha(p[1]) /\ p[2] = ":"
DrivePathShaped(p) == Len(p) >= 3 /\ isalpha(p[1]) /\ p[2] = ":" /\ IsSep(p[3])

NetBaseWins ==
    /\ NonEmpty(bt.base_net_raw)
    /\ UncShaped(UncRootForm(bt.base_net_raw))
    /\ \/ ~NonEmpty(bt.base_local)
       \/ DrivePathShaped(bt.base_local)
       \/ DriveRootShaped(bt.base_local)

Preferred(ansi, unicode) == IF NonEmpty(unicode) THEN unicode ELSE ansi

\* absent and empty are the same to the builder
Usable(v) == IF NonEmpty(v) THEN v ELSE <<>>

\* C15: for each ANSI/Unicode pair (local base path, net name, device
\* name, common path suffix) the builder uses the Unicode value when it is
\* present and non-empty and the ANSI value when the Unicode value is absent
\* or empty.
C15_UnicodeElseAnsi ==
    bt.pc # "select" =>
        /\ Usable(bt.base_local) = Usable(Preferred(bt.li.localBasePath, bt.li.localBasePathU))
        /\ Usable(bt.base_net_raw) = Usable(Preferred(bt.li.netName, bt.li.netNameU))
        /\ Usable(bt.base_dev) = Usable(Preferred(bt.li.deviceName, bt.li.deviceNameU))
        /\ Usable(bt.suf) = Usable(Preferred(bt.li.commonPathSuffix, bt.li.commonPathSuffixU))

(***************************************************************************)
(* lnk_io.c, lnk_parse.c: the stream of a .lnk file and its readers.       *)
(* A stream is a sequence of bytes and a position; strings read from it    *)
(* are sequences of bytes; NoStr is the NULL pointer of such a string.     *)
(***************************************************************************)
NoStr == <<-1>>

\* fread(buf, n, 1, f): the n bytes at the position, or a failure that
\* leaves the position at the end of the stream
FRead(file, pos, n) ==
    IF pos + n <= Len(file)
    THEN [ok |-> TRUE, bytes |-> SubSeq(file, pos + 1, pos + n), pos |-> pos + n]
    ELSE [ok |-> FALSE, bytes |-> <<>>, pos |-> IF pos > Len(file) THEN pos ELSE Len(file)]

\* little-endian integers of the stream
LE16(b) == b[1] + 256 * b[2]
LE32(b) == b[1] + 256 * b[2] + 65536 * b[3] + 16777216 * b[4]

\* lnk_utf16le_to_utf8 as a function of its arguments
RECURSIVE U16Loop(_, _, _)
U16Loop(wstr, i, len) ==
    IF i >= len THEN <<>>
    ELSE LET c == ConvertUnit(wstr, i, len) IN c.bytes \o U16Loop(wstr, i + c.units, len)

lnk_utf16le_to_utf8(wstr, max_chars) == U16Loop(wstr, 0, U16Len(wstr, max_chars, 0))

\* lnk_read_c_string: bytes up to a NUL, the end of the stream or the cap
RECURSIVE ReadCLoop(_, _, _, _)
ReadCLoop(file, pos, cap, s) ==
    IF pos >= Len(file) THEN [str |-> s, pos |-> pos]
    ELSE LET c == file[pos + 1] IN
         IF c = 0 THEN [str |-> s, pos |-> pos + 1]
         ELSE IF Len(s) + 2 >= cap THEN [str |-> Append(s, c), pos |-> pos + 1]
         ELSE ReadCLoop(file, pos + 1, cap, Append(s, c))

lnk_read_c_string(file, pos, cap) == ReadCLoop(file, pos, cap, <<>>)

\* lnk_read_w_string: units up to a 0x0000, a short read or the cap
RECURSIVE ReadWLoop(_, _, _, _)
ReadWLoop(file, pos, max_chars, w) ==
    LET r == FRead(file, pos, 2) IN
    IF ~r.ok THEN [w |-> w, pos |-> r.pos]
    ELSE LET ch == LE16(r.bytes) IN
         IF ch = 0 THEN [w |-> w, pos |-> r.pos]
         ELSE IF Len(w) + 2 >= max_chars THEN [w |-> Append(w, ch), pos |-> r.pos]
         ELSE ReadWLoop(file, r.pos, max_chars, Append(w, ch))

lnk_read_w_string(file, pos, max_chars) ==
    LET r == ReadWLoop(file, pos, max_chars, <<>>) IN
    [str |-> lnk_utf16le_to_utf8(Append(r.w, 0), Len(r.w) + 1), pos |-> r.pos]

\* the units of 2n bytes
UnitsOf(bytes) == [j \in 1..(Len(bytes) \div 2) |-> bytes[2 * j - 1] + 256 * bytes[2 * j]]

\* the C string held by a buffer: its bytes before the first NUL
RECURSIVE CStr(_)
CStr(bytes) == IF bytes = <<>> \/ bytes[1] = 0 THEN <<>> ELSE <<bytes[1]>> \o CStr(Tail(bytes))

\* lnk_read_string_data: a 16-bit count, then count units or bytes
lnk_read_string_data(file, pos, unicode) ==
    LET c == FRead(file, pos, 2) IN
    IF ~c.ok THEN [str |-> NoStr, pos |-> c.pos]
    ELSE LET count == LE16(c.bytes) IN
         IF count = 0 THEN [str |-> <<>>, pos |-> c.pos]
         ELSE LET d == FRead(file, c.pos, IF unicode THEN 2 * count ELSE count) IN
              IF ~d.ok THEN [str |-> NoStr, pos |-> d.pos]
              ELSE IF unicode
              THEN [str |-> lnk_utf16le_to_utf8(UnitsOf(d.bytes), count), pos |-> d.pos]
              ELSE [str |-> CStr(d.bytes), pos |-> d.pos]

(***************************************************************************)
(* lnk_parse.c: the path found in the bytes of the ID list                 *)
(***************************************************************************)
\* ':' '\' '/' and the letters, as bytes
Colon == 58
Backslash == 92
Slash == 47
IsAlphaByte(c) == (c >= 65 /\ c <= 90) \/ (c >= 97 /\ c <= 122)
IsSepByte(c) == c = Backslash \/ c = Slash

parse_looks_like_drive_path(p) ==
    /\ p # NoStr /\ Len(p) >= 3
    /\ IsAlphaByte(p[1]) /\ p[2] = Colon /\ IsSepByte(p[3])

parse_looks_like_unc_path(p) ==
    /\ p # NoStr /\ Len(p) >= 5
    /\ \/ p[1] = Backslash /\ p[2] = Backslash
       \/ p[1] = Slash /\ p[2] = Slash

\* the segments of s: maximal runs of bytes that are not separators
RECURSIVE CountSegments(_, _)
CountSegments(s, in_seg) ==
    IF s = <<>> THEN (IF in_seg THEN 1 ELSE 0)
    ELSE IF IsSepByte(s[1]) THEN (IF in_seg THEN 1 ELSE 0) + CountSegments(Tail(s), FALSE)
    ELSE CountSegments(Tail(s), TRUE)

RECURSIVE SkipSeps(_)
SkipSeps(s) == IF s # <<>> /\ IsSepByte(s[1]) THEN SkipSeps(Tail(s)) ELSE s

RECURSIVE SkipName(_)
SkipName(s) == IF s # <<>> /\ ~IsSepByte(s[1]) THEN SkipName(Tail(s)) ELSE s

count_drive_segments(p) ==
    IF ~parse_looks_like_drive_path(p) THEN 0 ELSE CountSegments(SubSeq(p, 4, Len(p)), FALSE)

count_unc_rest_segments(p) ==
    IF ~parse_looks_like_unc_path(p) THEN 0
    ELSE LET afterServer == SkipName(SkipSeps(p)) IN
         IF afterServer = <<>> THEN 0
         ELSE LET afterShare == SkipName(SkipSeps(afterServer)) IN
              IF afterShare = <<>> THEN 0
              ELSE CountSegments(SkipSeps(afterShare), FALSE)

score_idlist_candidate(s) ==
    IF s = NoStr \/ s = <<>> THEN -1
    ELSE IF parse_looks_like_unc_path(s)
    THEN count_unc_rest_segments(s) * 100 + 50 + (Len(s) \div 8)
    ELSE IF parse_looks_like_drive_path(s)
    THEN count_drive_segments(s) * 100 + 40 + (Len(s) \div 8)
    ELSE -1

\* bytes of buf from start (counted from 0) up to a NUL or a control byte
RECURSIVE PrintableRun(_, _, _)
PrintableRun(buf, at, max) ==
    IF at >= max THEN <<>>
    ELSE LET c == buf[at + 1] IN
         IF c = 0 \/ (c < 32 /\ c # 9) THEN <<>>
         ELSE <<c>> \o PrintableRun(buf, at + 1, max)

dup_c_string_bounded(buf, start, cap) ==
    IF start >= Len(buf) \/ cap = 0 THEN NoStr
    ELSE LET max == IF Len(buf) < start + cap THEN Len(buf) ELSE start + cap
             run == PrintableRun(buf, start, max)
         IN IF run = <<>> THEN NoStr ELSE run

\* the units copied into w: up to and with the first 0x0000
RECURSIVE UnitsRun(_, _, _, _)
UnitsRun(buf, start, j, max_units) ==
    IF j >= max_units THEN <<>>
    ELSE LET cu == buf[start + 2 * j + 1] + 256 * buf[start + 2 * j + 2] IN
         IF cu = 0 THEN <<0>> ELSE <<cu>> \o UnitsRun(buf, start, j + 1, max_units)

dup_utf16le_string_bounded(buf, start, max_units) ==
    IF start + 2 > Len(buf) THEN NoStr
    ELSE LET avail == (Len(buf) - start) \div 2
             mu    == IF max_units > avail THEN avail ELSE max_units
         IN IF mu = 0 THEN NoStr
            ELSE LET w == UnitsRun(buf, start, 0, mu) IN
                 lnk_utf16le_to_utf8(Append(w, 0), mu + 1)

\* one candidate against the best so far
Better(best, cand) ==
    IF score_idlist_candidate(cand) > best.score
    THEN [path |-> cand, score |-> score_idlist_candidate(cand)]
    ELSE best

IdListCap == 4096

RECURSIVE AsciiScan(_, _, _)
AsciiScan(buf, i, best) ==
    IF i + 4 >= Len(buf) THEN best
    ELSE LET b1 == IF IsAlphaByte(buf[i + 1]) /\ buf[i + 2] = Colon /\ IsSepByte(buf[i + 3])
                   THEN Better(best, dup_c_string_bounded(buf, i, IdListCap)) ELSE best
             b2 == IF buf[i + 1] = Backslash /\ buf[i + 2] = Backslash
                   THEN Better(b1, dup_c_string_bounded(buf, i, IdListCap)) ELSE b1
         IN AsciiScan(buf, i + 1, b2)

RECURSIVE Utf16Scan(_, _, _)
Utf16Scan(buf, i, best) ==
    IF i + 8 >= Len(buf) THEN best
    ELSE LET b1 == IF /\ IsAlphaByte(buf[i + 1]) /\ buf[i + 2] = 0
                      /\ buf[i + 3] = Colon /\ buf[i + 4] = 0
                      /\ IsSepByte(buf[i + 5]) /\ buf[i + 6] = 0
                   THEN Better(best, dup_utf16le_string_bounded(buf, i, IdListCap)) ELSE best
             b2 == IF /\ buf[i + 1] = Backslash /\ buf[i + 2] = 0
                      /\ buf[i + 3] = Backslash /\ buf[i + 4] = 0
                   THEN Better(b1, dup_utf16le_string_bounded(buf, i, IdListCap)) ELSE b1
         IN Utf16Scan(buf, i + 1, b2)

extract_best_path_from_idlist(buf) ==
    IF Len(buf) < 4 THEN NoStr
    ELSE Utf16Scan(buf, 0, AsciiScan(buf, 0, [path |-> NoStr, score |-> -1])).path

(***************************************************************************)
(* The .lnk streams parse_lnk is run on: a header, then the sections the   *)
(* link flags announce, written at fixed places; the fields of the header  *)
(* of each section are drawn from small sets, and the stream may be cut.   *)
(***************************************************************************)
HAS_LINK_TARGET_IDLIST == 1
HAS_LINK_INFO == 2
HAS_NAME == 4
HAS_RELATIVE_PATH == 8
HAS_WORKING_DIR == 16
HAS_ARGUMENTS == 32
HAS_ICON_LOCATION == 64
IS_UNICODE == 128

HasFlag(flags, bit) == (flags \div bit) % 2 = 1

HeaderSize == 76
ShellLinkCLSID == <<1, 20, 2, 0, 0, 0, 0, 0, 192, 0, 0, 0, 0, 0, 0, 70>>

Bytes16(n) == <<n % 256, n \div 256>>
Bytes32(n) == <<n % 256, (n \div 256) % 256, (n \div 65536) % 256, n \div 16777216>>
Zeros(n) == [i \in 1..n |-> 0]

\* ---- the strings of the sections, ANSI and UTF-16LE, without terminator
LbpBytes == <<67, 58, 92, 97>>
CpsBytes == <<102>>
NetBytes == <<92, 92, 115, 92, 104>>
DevBytes == <<77, 58>>
NetWide == <<92, 0, 92, 0, 117, 0, 92, 0, 104, 0>>
DevWide == <<78, 0, 58, 0>>
LbpWide == <<67, 0, 58, 0, 92, 0, 117, 0>>
CpsWide == <<103, 0>>

\* ---- their places: offsets from the start of the CNRL structure (7 fields
\* of 4 bytes, then the strings) and of the LinkInfo section (9 fields)
NetAt == 7 * 4
DevAt == NetAt + Len(NetBytes) + 1
NetUAt == DevAt + Len(DevBytes) + 1
DevUAt == NetUAt + Len(NetWide) + 2
CnrlLen == DevUAt + Len(DevWide) + 2
LbpAt == 9 * 4
CpsAt == LbpAt + Len(LbpBytes) + 1
CnrlAt == CpsAt + Len(CpsBytes) + 1
LbpUAt == CnrlAt + CnrlLen
CpsUAt == LbpUAt + Len(LbpWide) + 2
LinkInfoLen == CpsUAt + Len(CpsWide) + 2

HeaderBytes(p) ==
    Bytes32(p.hs) \o (IF p.clsid THEN ShellLinkCLSID ELSE [ShellLinkCLSID EXCEPT ![1] = 2])
    \o Bytes32(p.flags) \o Zeros(52)

\* ID list: "C:\a\b" in bytes, "C:\w" in UTF-16LE units, or fewer bytes
\* than the declared size
IdListBytes(p) ==
    CASE p.idl = "empty" -> Bytes16(0)
      [] p.idl = "path"  -> Bytes16(9) \o <<2, 0>> \o <<67, 58, 92, 97, 92, 98>> \o <<0>>
      [] p.idl = "wide"  -> Bytes16(12) \o <<2, 0>> \o <<67, 0, 58, 0, 92, 0, 119, 0>> \o <<0, 0>>
      [] p.idl = "short" -> Bytes16(1000) \o <<67, 58, 92, 97, 92, 98>>

CnrlBytes(p) ==
    Bytes32(p.cnSize) \o Bytes32(0) \o Bytes32(p.net) \o Bytes32(p.dev) \o Bytes32(0)
    \o Bytes32(p.netU) \o Bytes32(p.devU)
    \o NetBytes \o <<0>> \o DevBytes \o <<0>>
    \o NetWide \o <<0, 0>> \o DevWide \o <<0, 0>>

LinkInfoBytes(p) ==
    Bytes32(p.liSize) \o Bytes32(p.liHdr) \o Bytes32(0) \o Bytes32(0)
    \o Bytes32(p.lbp) \o Bytes32(p.cnrl) \o Bytes32(p.cps)
    \o Bytes32(p.lbpU) \o Bytes32(p.cpsU)
    \o LbpBytes \o <<0>> \o CpsBytes \o <<0>>
    \o CnrlBytes(p)
    \o LbpWide \o <<0, 0>> \o CpsWide \o <<0, 0>>

StringDataBytes(p) ==
    LET u == HasFlag(p.flags, IS_UNICODE) IN
    (IF HasFlag(p.flags, HAS_NAME)
     THEN Bytes16(2) \o (IF u THEN <<110, 0, 109, 0>> ELSE <<110, 109>>) ELSE <<>>)
    \o (IF HasFlag(p.flags, HAS_RELATIVE_PATH)
        THEN Bytes16(1) \o (IF u THEN <<114, 0>> ELSE <<114>>) ELSE <<>>)
    \o (IF HasFlag(p.flags, HAS_WORKING_DIR) THEN Bytes16(0) ELSE <<>>)

Whole(p) ==
    HeaderBytes(p)
    \o (IF HasFlag(p.flags, HAS_LINK_TARGET_IDLIST) THEN IdListBytes(p) ELSE <<>>)
    \o (IF HasFlag(p.flags, HAS_LINK_INFO) THEN LinkInfoBytes(p) ELSE <<>>)
    \o StringDataBytes(p)

\* the stream, cut after p.cut bytes when it is longer
FileOf(p) ==
    LET w == Whole(p) IN IF p.cut >= 0 /\ p.cut < Len(w) THEN SubSeq(w, 1, p.cut) ELSE w

\* ---- the streams
\* -1: the whole stream
Cuts == {0, 50, 76, 77, 80, 90, 100, 130, 200, -1}
FlagSets == {0, 1, 2, 3, 6, 15, 135, 140}
IdLists == {"empty", "path", "wide", "short"}

PlainStream ==
    [hs |-> HeaderSize, clsid |-> TRUE, flags |-> 6, idl |-> "path",
     liSize |-> LinkInfoLen, liHdr |-> 36,
     lbp |-> LbpAt, lbpU |-> LbpUAt, cps |-> CpsAt, cpsU |-> CpsUAt,
     cnrl |-> CnrlAt, cnSize |-> CnrlLen,
     net |-> NetAt, netU |-> NetUAt, dev |-> DevAt, devU |-> DevUAt, cut |-> -1]

\* header, flags, ID list, LinkInfo size and truncation varied
OuterStreams ==
    { [PlainStream EXCEPT !.hs = h, !.clsid = c, !.flags = f, !.idl = i, !.liSize = z, !.cut = k] :
        h \in {HeaderSize, 77}, c \in BOOLEAN, f \in FlagSets, i \in IdLists,
        z \in {LinkInfoLen, 27}, k \in Cuts }

\* the offsets and sizes of LinkInfo and CNRL varied: absent (0), right,
\* equal to the declared size, beyond it
LbpPairs == { <<LbpAt, 0>>, <<LbpAt, LbpUAt>>, <<0, LbpUAt>>, <<LinkInfoLen, 0>>,
              <<LbpAt, LinkInfoLen>>, <<0, 0>> }
CpsPairs == { <<CpsAt, 0>>, <<CpsAt, CpsUAt>>, <<LinkInfoLen + 7, 0>>, <<CpsAt, LinkInfoLen>> }
NetPairs == { <<NetAt, 0>>, <<NetAt, NetUAt>>, <<CnrlLen, 0>>, <<NetAt, CnrlLen>>, <<0, NetUAt>> }
DevPairs == { <<DevAt, 0>>, <<DevAt, DevUAt>>, <<CnrlLen + 4, CnrlLen>> }

InnerStreams ==
    { [PlainStream EXCEPT !.flags = f, !.liSize = z, !.liHdr = h,
                          !.lbp = l[1], !.lbpU = l[2], !.cps = s[1], !.cpsU = s[2],
                          !.cnrl = c, !.cnSize = cz,
                          !.net = n[1], !.netU = n[2], !.dev = d[1], !.devU = d[2]] :
        f \in {6}, z \in {LinkInfoLen, 60}, h \in {28, 36},
        l \in LbpPairs, s \in CpsPairs, c \in {0, CnrlAt, LinkInfoLen},
        cz \in {CnrlLen, 20, CnrlLen + 15}, n \in NetPairs, d \in DevPairs }

InfoFields == {"localBasePath", "localBasePathU", "netName", "netNameU", "deviceName",
               "deviceNameU", "idListPath", "commonPathSuffix", "commonPathSuffixU",
               "nameString", "relativePath", "workingDir", "arguments", "iconLocation"}

\* a LnkInfo of NULL pointers
EmptyInfo == [f \in InfoFields |-> NoStr]

\* streams that end inside a string: the ANSI or the UTF-16 local base path
\* of LinkInfo, or the first StringData entry (bytes or units)
ShortCuts == {HeaderSize + 3, HeaderSize + 4, HeaderSize + LbpAt + 2,
              HeaderSize + LbpUAt + 3, HeaderSize + LbpUAt + 4}
ShortStreams ==
    { [PlainStream EXCEPT !.flags = f, !.lbpU = u, !.cut = k] :
        f \in {2, 12, 140}, u \in {0, LbpUAt}, k \in ShortCuts }

PlInit ==
    \E p \in OuterStreams \cup InnerStreams \cup ShortStreams :
        pl = [pc |-> "header", file |-> FileOf(p), pos |-> 0, result |-> -1,
              out |-> EmptyInfo, flags |-> 0,
              li_start |-> 0, liSize |-> 0, liHeaderSize |-> 0,
              lbpOff |-> 0, cnrlOff |-> 0, cpsOff |-> 0, lbpOffU |-> 0, cpsOffU |-> 0,
              cn |-> [seen |-> FALSE, cnSize |-> 0, netOff |-> 0, devOff |-> 0,
                      netOffU |-> 0, devOffU |-> 0],
              seeks |-> <<>>, sections |-> {}, sd_pos |-> -1]

\* return 0
Fatal(p) == [p EXCEPT !.pc = "done", !.result = 0]

\* the CLSID is not compared
HeaderValid_SizeOnly(hdr) == LE32(SubSeq(hdr, 1, 4)) = HeaderSize

\* lines 282-286
HeaderValid(hdr) ==
    /\ LE32(SubSeq(hdr, 1, 4)) = HeaderSize
    /\ SubSeq(hdr, 5, 20) = ShellLinkCLSID

\* lines 272-292: the header
pl_header ==
    /\ pl # Off /\ pl.pc = "header"
    /\ LET cleared == [pl EXCEPT !.out = EmptyInfo]
           r == FRead(pl.file, pl.pos, HeaderSize)
       IN pl' = IF ~r.ok THEN Fatal([cleared EXCEPT !.pos = r.pos])
                ELSE IF ~HeaderValid(r.bytes) THEN Fatal([cleared EXCEPT !.pos = r.pos])
                ELSE [cleared EXCEPT !.pc = "idlist", !.pos = r.pos,
                                     !.flags = LE32(SubSeq(r.bytes, 21, 24))]
    /\ UNCHANGED otherThanPl

\* lines 299-312: the ID list (malloc(0) taken to return a pointer)
pl_idlist ==
    /\ pl # Off /\ pl.pc = "idlist"
    /\ IF ~HasFlag(pl.flags, HAS_LINK_TARGET_IDLIST)
       THEN pl' = [pl EXCEPT !.pc = "linkinfo"]
       ELSE LET entered == [pl EXCEPT !.sections = @ \cup {"idlist"}]
                r1 == FRead(pl.file, pl.pos, 2)
                r2 == FRead(pl.file, r1.pos, LE16(r1.bytes))
            IN pl' = IF ~r1.ok THEN Fatal([entered EXCEPT !.pos = r1.pos])
                     ELSE IF ~r2.ok THEN Fatal([entered EXCEPT !.pos = r2.pos])
                     ELSE [entered EXCEPT
                              !.pc = "linkinfo", !.pos = r2.pos,
                              !.out.idListPath = extract_best_path_from_idlist(r2.bytes)]
    /\ UNCHANGED otherThanPl

\* lines 322-340: size and fixed fields of LinkInfo
pl_linkinfo ==
    /\ pl # Off /\ pl.pc = "linkinfo"
    /\ IF ~HasFlag(pl.flags, HAS_LINK_INFO)
       THEN pl' = [pl EXCEPT !.pc = "strings"]
       ELSE LET entered == [pl EXCEPT !.sections = @ \cup {"linkinfo"}, !.li_start = pl.pos]
                r0 == FRead(pl.file, pl.pos, 4)
                r1 == FRead(pl.file, r0.pos, 24)
                f(k) == LE32(SubSeq(r1.bytes, 4 * k + 1, 4 * k + 4))
                r2 == FRead(pl.file, r1.pos, 8)
            IN pl' = IF ~r0.ok \/ LE32(r0.bytes) < 28 THEN Fatal([entered EXCEPT !.pos = r0.pos])
                     ELSE IF ~r1.ok THEN Fatal([entered EXCEPT !.pos = r1.pos])
                     ELSE IF f(0) >= 36 /\ ~r2.ok THEN Fatal([entered EXCEPT !.pos = r2.pos])
                     ELSE [entered EXCEPT
                              !.pc = "paths",
                              !.pos = IF f(0) >= 36 THEN r2.pos ELSE r1.pos,
                              !.liSize = LE32(r0.bytes), !.liHeaderSize = f(0),
                              !.lbpOff = f(3), !.cnrlOff = f(4), !.cpsOff = f(5),
                              !.lbpOffU = IF f(0) >= 36 THEN LE32(SubSeq(r2.bytes, 1, 4)) ELSE 0,
                              !.cpsOffU = IF f(0) >= 36 THEN LE32(SubSeq(r2.bytes, 5, 8)) ELSE 0]
    /\ UNCHANGED otherThanPl

\* fseek(f, start + off, SEEK_SET) for a field at offset off of a structure
\* of declared size size
Seek(p, rel, off, size, start) ==
    [p EXCEPT !.pos = start + off,
              !.seeks = Append(@, [rel |-> rel, off |-> off, size |-> size])]

\* any offset but 0 accepted
OffsetInside_NonZero(off, size) == off # 0

\* an offset that is present and smaller than the declared size
OffsetInside(off, size) == off # 0 /\ off < size

WStringCap == 65535
CStringCap == 1048576

\* lines 349-355 and 357-363: one string of LinkInfo, Unicode or else ANSI
ReadPathField(p, offU, off, fieldU, field) ==
    IF OffsetInside(offU, p.liSize)
    THEN LET q == Seek(p, "LinkInfo", offU, p.liSize, p.li_start)
             r == lnk_read_w_string(q.file, q.pos, WStringCap)
         IN [q EXCEPT !.pos = r.pos, !.out[fieldU] = r.str]
    ELSE IF OffsetInside(off, p.liSize)
    THEN LET q == Seek(p, "LinkInfo", off, p.liSize, p.li_start)
             r == lnk_read_c_string(q.file, q.pos, CStringCap)
         IN [q EXCEPT !.pos = r.pos, !.out[field] = r.str]
    ELSE p

\* lines 349-363: local base path and common path suffix
pl_paths ==
    /\ pl # Off /\ pl.pc = "paths"
    /\ LET p1 == ReadPathField(pl, pl.lbpOffU, pl.lbpOff, "localBasePathU", "localBasePath")
           p2 == ReadPathField(p1, pl.cpsOffU, pl.cpsOff, "commonPathSuffixU", "commonPathSuffix")
       IN pl' = [p2 EXCEPT !.pc = "cnrl"]
    /\ UNCHANGED otherThanPl

\* lines 395-405 and 407-417: one string of CNRL, Unicode and, when that
\* is absent or empty, ANSI
ReadNetField(p, cn_start, offU, off, fieldU, field) ==
    LET p1 == IF p.out[fieldU] = NoStr /\ OffsetInside(offU, p.cn.cnSize)
              THEN LET q == Seek(p, "CNRL", offU, p.cn.cnSize, cn_start)
                       r == lnk_read_w_string(q.file, q.pos, WStringCap)
                   IN [q EXCEPT !.pos = r.pos, !.out[fieldU] = r.str]
              ELSE p
    IN IF /\ p1.out[field] = NoStr
          /\ (p1.out[fieldU] = NoStr \/ p1.out[fieldU] = <<>>)
          /\ OffsetInside(off, p.cn.cnSize)
       THEN LET q == Seek(p1, "CNRL", off, p.cn.cnSize, cn_start)
                r == lnk_read_c_string(q.file, q.pos, CStringCap)
            IN [q EXCEPT !.pos = r.pos, !.out[field] = r.str]
       ELSE p1

\* lines 375-422: the CommonNetworkRelativeLink structure
pl_cnrl ==
    /\ pl # Off /\ pl.pc = "cnrl"
    /\ IF ~OffsetInside(pl.cnrlOff, pl.liSize)
       THEN pl' = [pl EXCEPT !.pc = "li_end"]
       ELSE LET cn_start == pl.li_start + pl.cnrlOff
                q  == Seek(pl, "LinkInfo", pl.cnrlOff, pl.liSize, pl.li_start)
                r0 == FRead(q.file, q.pos, 4)
                cnSize == LE32(r0.bytes)
                r1 == FRead(q.file, r0.pos, 16)
                r2 == FRead(q.file, r1.pos, 4)
                r3 == FRead(q.file, r2.pos, 4)
                wide == cnSize >= 28
                hdr == [q EXCEPT
                          !.pos = IF wide THEN r3.pos ELSE r1.pos,
                          !.cn = [seen |-> TRUE, cnSize |-> cnSize,
                                  netOff |-> LE32(SubSeq(r1.bytes, 5, 8)),
                                  devOff |-> LE32(SubSeq(r1.bytes, 9, 12)),
                                  netOffU |-> IF wide /\ r2.ok THEN LE32(r2.bytes) ELSE 0,
                                  devOffU |-> IF wide /\ r3.ok THEN LE32(r3.bytes) ELSE 0]]
                n  == ReadNetField(hdr, cn_start, hdr.cn.netOffU, hdr.cn.netOff,
                                   "netNameU", "netName")
                d  == ReadNetField(n, cn_start, hdr.cn.devOffU, hdr.cn.devOff,
                                   "deviceNameU", "deviceName")
            IN pl' = IF ~r0.ok THEN [q EXCEPT !.pc = "li_end", !.pos = r0.pos]
                     ELSE IF ~(cnSize >= 20 /\ cnSize <= pl.liSize - pl.cnrlOff)
                     THEN [q EXCEPT !.pc = "li_end", !.pos = r0.pos]
                     ELSE IF ~r1.ok THEN [q EXCEPT !.pc = "li_end", !.pos = r1.pos]
                     ELSE [d EXCEPT !.pc = "li_end"]
    /\ UNCHANGED otherThanPl

\* the cursor left where the last read ended
LinkInfoEnd_NoSeek(pos, li_start, liSize) == pos

\* line 425: fseek(f, li_start + (long)liSize, SEEK_SET)
LinkInfoEnd(pos, li_start, liSize) == li_start + liSize

pl_linkinfo_end ==
    /\ pl # Off /\ pl.pc = "li_end"
    /\ pl' = [pl EXCEPT !.pc = "strings", !.pos = LinkInfoEnd(pl.pos, pl.li_start, pl.liSize)]
    /\ UNCHANGED otherThanPl

\* one StringData entry when its flag is set
StringEntry(p, bit, field) ==
    IF HasFlag(p.flags, bit)
    THEN LET r == lnk_read_string_data(p.file, p.pos, HasFlag(p.flags, IS_UNICODE))
         IN [p EXCEPT !.pos = r.pos, !.out[field] = r.str]
    ELSE p

\* lines 432-438: the StringData entries, return 1
pl_string_data ==
    /\ pl # Off /\ pl.pc = "strings"
    /\ LET p0 == [pl EXCEPT !.sd_pos = pl.pos,
                            !.sections = IF pl.flags \div HAS_NAME % 32 # 0
                                         THEN @ \cup {"strings"} ELSE @]
           p1 == StringEntry(p0, HAS_NAME, "nameString")
           p2 == StringEntry(p1, HAS_RELATIVE_PATH, "relativePath")
           p3 == StringEntry(p2, HAS_WORKING_DIR, "workingDir")
           p4 == StringEntry(p3, HAS_ARGUMENTS, "arguments")
           p5 == StringEntry(p4, HAS_ICON_LOCATION, "iconLocation")
       IN pl' = [p5 EXCEPT !.pc = "done", !.result = 1]
    /\ UNCHANGED otherThanPl

InitParse == PlInit /\ EarlierOff /\ un = Off /\ bt = Off /\ bm = Off /\ rd = Off /\ cm = Off
NextParse ==
    \/ pl_header
    \/ pl_idlist
    \/ pl_linkinfo
    \/ pl_paths
    \/ pl_cnrl
    \/ pl_linkinfo_end
    \/ pl_string_data
SpecParse == InitParse /\ [][NextParse]_vars

\* ---- vocabulary of the claims about parse_lnk: what the stream declares
HasHeader == Len(pl.file) >= HeaderSize
DeclaredHeaderSize == LE32(SubSeq(pl.file, 1, 4))
DeclaredClsid == SubSeq(pl.file, 5, 20)
DeclaredFlags == LE32(SubSeq(pl.file, 21, 24))
LinkInfoStart ==
    HeaderSize + (IF HasFlag(DeclaredFlags, HAS_LINK_TARGET_IDLIST)
                  THEN 2 + LE16(SubSeq(pl.file, HeaderSize + 1, HeaderSize + 2)) ELSE 0)
DeclaredLinkInfoSize == LE32(SubSeq(pl.file, LinkInfoStart + 1, LinkInfoStart + 4))

\* C16: on a stream whose declared header size is not 0x4C or whose class
\* identifier is not the Shell Link CLSID, parse_lnk returns the fatal
\* error, every field of the output record is absent and no optional
\* section is read.
C16_InvalidHeaderRejected ==
    (HasHeader /\ (DeclaredHeaderSize # 76 \/ DeclaredClsid # ShellLinkCLSID)) =>
        /\ pl.pc \in {"header", "done"}
        /\ pl.pc = "done" => pl.result = 0
        /\ pl.out = EmptyInfo
        /\ pl.sections = {}
        /\ pl.pos <= HeaderSize

C16_Witness ==
    /\ pl.pc = "done" /\ pl.result = 0
    /\ HasHeader /\ DeclaredHeaderSize = 76 /\ DeclaredClsid # ShellLinkCLSID
    /\ HasFlag(DeclaredFlags, HAS_LINK_INFO) /\ HasFlag(DeclaredFlags, HAS_LINK_TARGET_IDLIST)
    /\ Len(pl.file) > HeaderSize + 100

\* C18: after the LinkInfo section has been processed, the position from
\* which the StringData entries are read is the start of the section plus
\* its declared size, whatever offsets and CNRL sizes it holds and however
\* many bytes the reads of its fields consumed.
C18_StringDataAfterLinkInfo ==
    (pl.sd_pos # -1 /\ HasFlag(DeclaredFlags, HAS_LINK_INFO)) =>
        pl.sd_pos = LinkInfoStart + DeclaredLinkInfoSize

C18_Witness ==
    /\ pl.pc = "done" /\ pl.result = 1
    /\ pl.cn.seen /\ Len(pl.seeks) >= 4
    /\ pl.out.netNameU # NoStr /\ pl.out.commonPathSuffixU = NoStr
    /\ DeclaredLinkInfoSize = LinkInfoLen
    /\ pl.sd_pos = HeaderSize + LinkInfoLen
    /\ pl.out.nameString = <<110, 109>>

\* the fixed fields of LinkInfo have been read
LinkInfoRead == pl.liSize >= 28

\* C19: in the LinkInfo section no seek is made to an offset that is not
\* smaller than the declared size it is relative to; a LinkInfo offset >=
\* the declared LinkInfo size and a CNRL offset >= the declared CNRL size
\* leave their fields absent, and parse_lnk still succeeds.
C19_OffsetsValidatedBeforeSeek ==
    /\ \A i \in 1..Len(pl.seeks) : pl.seeks[i].off < pl.seeks[i].size
    /\ (LinkInfoRead /\ pl.pc \in {"cnrl", "li_end", "strings", "done"}) =>
          /\ pl.lbpOffU >= pl.liSize => pl.out.localBasePathU = NoStr
          /\ pl.lbpOff >= pl.liSize => pl.out.localBasePath = NoStr
          /\ pl.cpsOffU >= pl.liSize => pl.out.commonPathSuffixU = NoStr
          /\ pl.cpsOff >= pl.liSize => pl.out.commonPathSuffix = NoStr
    /\ (LinkInfoRead /\ pl.pc \in {"li_end", "strings", "done"}) =>
          /\ pl.cnrlOff >= pl.liSize =>
                /\ ~pl.cn.seen
                /\ pl.out.netName = NoStr /\ pl.out.netNameU = NoStr
                /\ pl.out.deviceName = NoStr /\ pl.out.deviceNameU = NoStr
          /\ pl.cn.seen =>
                /\ pl.cn.netOffU >= pl.cn.cnSize => pl.out.netNameU = NoStr
                /\ pl.cn.netOff >= pl.cn.cnSize => pl.out.netName = NoStr
                /\ pl.cn.devOffU >= pl.cn.cnSize => pl.out.deviceNameU = NoStr
                /\ pl.cn.devOff >= pl.cn.cnSize => pl.out.deviceName = NoStr
    /\ (LinkInfoRead /\ pl.pc = "done") => pl.result = 1

C19_Witness ==
    /\ pl.pc = "done" /\ pl.result = 1
    /\ pl.lbpOff >= pl.liSize /\ pl.out.localBasePath = NoStr
    /\ pl.cn.seen /\ pl.cn.netOff >= pl.cn.cnSize /\ pl.out.netName = NoStr
    /\ pl.cn.devOffU >= pl.cn.cnSize /\ pl.out.deviceNameU = NoStr
    /\ pl.out.commonPathSuffix # NoStr

\* C20: whenever parse_lnk reports a fatal decode error, at any point of
\* the parse, every field of the output record is absent.
C20_FatalLeavesNoField ==
    (pl.pc = "done" /\ pl.result = 0) => pl.out = EmptyInfo

(***************************************************************************)
(* main.c: main, a batch of arguments.  The arguments are drawn one by one *)
(* while they are scanned; a shortcut argument is known by its rank among  *)
(* the shortcut arguments; handle_one_lnk is its return value.             *)
(***************************************************************************)
\* arguments after the program name
MaxArgs == 258
\* const char *lnk_args[256]
MaxLnkArgs == 256

ArgKinds == {"lnk", "--debug", "--assist", "--version", "--help", "-x"}

\* 0: opened; 1: cannot be read, decoded or has no target; 2: nothing resolved it
HandleResults == {0, 1, 2}

BmInit ==
    bm = [pc |-> "scan", i |-> 1, given |-> 0, lnk_args |-> <<>>,
          g_debug |-> FALSE, g_assist |-> FALSE,
          next |-> 0, handled |-> <<>>, rc |-> 0, exit |-> -1, ran |-> FALSE]

\* lines 1238-1261: one argument
main_scan_arg(kind) ==
    /\ bm # Off /\ bm.pc = "scan"
    /\ bm.i <= MaxArgs
    /\ bm' =
         CASE kind = "--debug"  -> [bm EXCEPT !.i = @ + 1, !.g_debug = TRUE]
           [] kind = "--assist" -> [bm EXCEPT !.i = @ + 1, !.g_assist = TRUE]
           [] kind \in {"--version", "--help"} -> [bm EXCEPT !.pc = "exit", !.exit = 0]
           [] kind = "-x" -> [bm EXCEPT !.pc = "exit", !.exit = 1]
           [] kind = "lnk" ->
                [bm EXCEPT !.i = @ + 1, !.given = @ + 1,
                           !.lnk_args = IF Len(@) < MaxLnkArgs
                                        THEN Append(@, bm.given + 1) ELSE @]
    /\ UNCHANGED otherThanBm

\* lines 1263-1273: the end of argv; no shortcut, or the mapping table loaded
main_scan_end ==
    /\ bm # Off /\ bm.pc = "scan"
    /\ bm' = IF Len(bm.lnk_args) = 0 THEN [bm EXCEPT !.pc = "exit", !.exit = 1]
             ELSE [bm EXCEPT !.pc = "loop", !.i = 0, !.ran = TRUE]
    /\ UNCHANGED otherThanBm

\* lines 1276-1279: one shortcut handled
main_handle(r) ==
    /\ bm # Off /\ bm.pc = "loop"
    /\ bm.next < Len(bm.lnk_args)
    /\ bm' = [bm EXCEPT !.next = @ + 1,
                        !.handled = Append(@, bm.lnk_args[bm.next + 1]),
                        !.rc = IF r # 0 THEN r ELSE @]
    /\ UNCHANGED otherThanBm

\* lines 1281-1285
main_return ==
    /\ bm # Off /\ bm.pc = "loop"
    /\ bm.next >= Len(bm.lnk_args)
    /\ bm' = [bm EXCEPT !.pc = "exit", !.exit = bm.rc]
    /\ UNCHANGED otherThanBm

InitBatch == BmInit /\ EarlierOff /\ un = Off /\ bt = Off /\ pl = Off /\ rd = Off /\ cm = Off
NextBatch ==
    \/ \E kind \in ArgKinds : main_scan_arg(kind)
    \/ main_scan_end
    \/ \E r \in HandleResults : main_handle(r)
    \/ main_return
SpecBatch == InitBatch /\ [][NextBatch]_vars

\* C17: in a batch run every shortcut argument is handled, in argument
\* order, whatever the outcome of the earlier ones.
C17_EveryShortcutHandled ==
    /\ bm.ran => \A j \in 1..Len(bm.handled) : bm.handled[j] = j
    /\ (bm.ran /\ bm.pc = "exit") => Len(bm.handled) = bm.given

\* ---- vocabulary of C21: what the stream holds from a place to its end
RestOfStream(at) == SubSeq(pl.file, at + 1, Len(pl.file))
HasNul(bytes) == \E i \in 1..Len(bytes) : bytes[i] = 0
HasNulUnit(bytes) == \E j \in 1..(Len(bytes) \div 2) : UnitsOf(bytes)[j] = 0
\* the UTF-8 form of the whole units of some bytes
Utf8OfBytes(bytes) ==
    lnk_utf16le_to_utf8(Append(UnitsOf(bytes), 0), Len(bytes) \div 2 + 1)
\* the stream ends inside the ANSI local base path / the UTF-16 one / the
\* first StringData entry, after at least one unit of it
AnsiBaseCutShort ==
    /\ LinkInfoRead /\ ~OffsetInside(pl.lbpOffU, pl.liSize) /\ OffsetInside(pl.lbpOff, pl.liSize)
    /\ pl.li_start + pl.lbpOff < Len(pl.file)
    /\ ~HasNul(RestOfStream(pl.li_start + pl.lbpOff))
WideBaseCutShort ==
    /\ LinkInfoRead /\ OffsetInside(pl.lbpOffU, pl.liSize)
    /\ pl.li_start + pl.lbpOffU + 2 <= Len(pl.file)
    /\ ~HasNulUnit(RestOfStream(pl.li_start + pl.lbpOffU))
NameUnit == IF HasFlag(pl.flags, IS_UNICODE) THEN 2 ELSE 1
NameCutShort ==
    /\ pl.sd_pos >= 0 /\ HasFlag(pl.flags, HAS_NAME)
    /\ pl.sd_pos + 2 + NameUnit <= Len(pl.file)
    /\ pl.sd_pos + 2 + NameUnit * LE16(SubSeq(pl.file, pl.sd_pos + 1, pl.sd_pos + 2))
          > Len(pl.file)

\* C21: when the stream ends inside a variable-length string field (the
\* ANSI or UTF-16 local base path of LinkInfo, the first StringData entry),
\* parse_lnk still succeeds and the field holds the data that the stream
\* had before its end.
C21_ShortReadKeepsData ==
    pl.pc = "done" =>
        /\ AnsiBaseCutShort =>
              /\ pl.result = 1
              /\ pl.out.localBasePath = RestOfStream(pl.li_start + pl.lbpOff)
        /\ WideBaseCutShort =>
              /\ pl.result = 1
              /\ pl.out.localBasePathU = Utf8OfBytes(RestOfStream(pl.li_start + pl.lbpOffU))
        /\ NameCutShort =>
              /\ pl.result = 1
              /\ pl.out.nameString =
                    IF HasFlag(pl.flags, IS_UNICODE)
                    THEN Utf8OfBytes(RestOfStream(pl.sd_pos + 2))
                    ELSE CStr(RestOfStream(pl.sd_pos + 2))

\* the part of C21 about the strings of LinkInfo alone
C21_LinkInfoPart ==
    pl.pc = "done" =>
        /\ AnsiBaseCutShort =>
              /\ pl.result = 1
              /\ pl.out.localBasePath = RestOfStream(pl.li_start + pl.lbpOff)
        /\ WideBaseCutShort =>
              /\ pl.result = 1
              /\ pl.out.localBasePathU = Utf8OfBytes(RestOfStream(pl.li_start + pl.lbpOffU))
C21_LinkInfoSeen == pl.pc = "done" /\ AnsiBaseCutShort /\ pl.out.localBasePath = <<67, 58>>
C21_WideSeen == pl.pc = "done" /\ WideBaseCutShort /\ pl.out.localBasePathU = <<67>>

(***************************************************************************)
(* lnk_io.c: lnk_read_c_string and lnk_read_w_string step by step, one     *)
(* action per turn of their loop.  The stream is a run of non-zero units   *)
(* (bytes for the first, 16-bit units for the second) ended by a zero unit *)
(* or by the end of the stream; the buffer is known by its allocated size  *)
(* and by the index of the last write.                                     *)
(***************************************************************************)
InitialAlloc == 256
MaxRun == 600

EndOfStream == -1
\* fgetc / fread of one unit at a position of the stream
UnitAt(stream, pos) ==
    IF pos < stream.run THEN 97
    ELSE IF pos = stream.run /\ stream.nul THEN 0
    ELSE EndOfStream

ReaderCaps == {InitialAlloc, InitialAlloc + 1, 2 * InitialAlloc - 1, 2 * InitialAlloc,
               2 * InitialAlloc + 1, MaxRun}
RunLengths == {0, 1, InitialAlloc - 2, InitialAlloc - 1, InitialAlloc, InitialAlloc + 1,
               2 * InitialAlloc - 1, 2 * InitialAlloc, MaxRun}

\* size_t alloc = 256, j = 0; malloc(alloc)
RdInit ==
    \E fn \in {"lnk_read_c_string", "lnk_read_w_string"}, cap \in ReaderCaps,
       run \in RunLengths, nul \in BOOLEAN :
        rd = [pc |-> "loop", fn |-> fn, cap |-> cap, stream |-> [run |-> run, nul |-> nul],
              pos |-> 0, alloc |-> InitialAlloc, j |-> 0,
              wr |-> -1, wr_alloc |-> InitialAlloc, converted |-> 0]

\* the buffer is grown one turn too late
NeedsGrow_Late(j, alloc) == j + 1 > alloc

\* if (j + 1 >= alloc)
NeedsGrow(j, alloc) == j + 1 >= alloc

\* newa = alloc * 2; if (newa > cap) newa = cap
GrownAlloc(alloc, cap) == IF alloc * 2 > cap THEN cap ELSE alloc * 2

\* one turn of the while loop: a unit is read; a zero unit or the end of
\* the stream leaves the loop; else the buffer is grown when it is full,
\* the unit is stored and the cap is looked at
rd_turn ==
    /\ rd # Off /\ rd.pc = "loop"
    /\ LET c == UnitAt(rd.stream, rd.pos)
           alloc == IF NeedsGrow(rd.j, rd.alloc) THEN GrownAlloc(rd.alloc, rd.cap) ELSE rd.alloc
       IN rd' = IF c = EndOfStream THEN [rd EXCEPT !.pc = "terminate"]
                ELSE IF c = 0 THEN [rd EXCEPT !.pc = "terminate", !.pos = @ + 1]
                ELSE [rd EXCEPT !.pos = @ + 1, !.alloc = alloc,
                                !.wr = rd.j, !.wr_alloc = alloc, !.j = @ + 1,
                                !.pc = IF rd.j + 2 >= rd.cap THEN "terminate" ELSE "loop"]
    /\ UNCHANGED otherThanRd

\* s[j] = 0 (and lnk_utf16le_to_utf8(w, j + 1) for the wide reader), return
rd_terminate ==
    /\ rd # Off /\ rd.pc = "terminate"
    /\ rd' = [rd EXCEPT !.pc = "done", !.wr = rd.j, !.wr_alloc = rd.alloc,
                        !.converted = IF rd.fn = "lnk_read_w_string" THEN rd.j + 1 ELSE 0]
    /\ UNCHANGED otherThanRd

InitReaders == RdInit /\ EarlierOff /\ DecoderOff /\ cm = Off
NextReaders ==
    \/ rd_turn
    \/ rd_terminate
SpecReaders == InitReaders /\ [][NextReaders]_vars

\* C22: with a cap of at least the initial buffer size, the readers never
\* hold or consume more than cap-1 units, never let the buffer grow beyond
\* cap units, and every write (unit or terminator), as well as the range
\* handed to the converter, lies inside the buffer allocated at that time.
C22_ReadersBoundedByCap ==
    /\ rd.cap >= InitialAlloc
    /\ rd.j <= rd.cap - 1 /\ rd.pos <= rd.cap - 1
    /\ rd.alloc <= rd.cap
    /\ rd.wr < rd.wr_alloc
    /\ rd.converted <= rd.alloc

\* the cap stops a reader whose buffer has been grown up to the cap, and
\* the terminator is written in its last cell
C22_Witness ==
    /\ rd.pc = "done" /\ rd.fn = "lnk_read_w_string"
    /\ rd.cap = 2 * InitialAlloc + 1 /\ rd.stream.run > rd.cap
    /\ rd.j = rd.cap - 1 /\ rd.alloc = rd.cap /\ rd.wr = rd.cap - 1

(***************************************************************************)
(* Further claims about handle_one_lnk.                                    *)
(***************************************************************************)
\* C23: a UNC-shaped target (one that starts with //) is never resolved by
\* step 0, the raw POSIX path: no run on such a target opens the target
\* string itself as a local path.
C23_UncNeverRawLocal ==
    looks_like_unc_path(eng.target) =>
        \A i \in 1..Len(eng.trace) : ~(eng.trace[i].stage = "Raw" /\ eng.trace[i].rc = 0)

\* C24: once the interactive collaborator has cancelled (the list was
\* declined, or the manual entry was cancelled or left empty), the engine
\* is no longer in the assistance step: it has gone on to UriFallback for a
\* UNC target and to failure for a drive target, and does not prompt again.
C24_CancelLeavesAssistance ==
    eng.cancelled # "none" => eng.pc \notin {"unc_prompt", "drive_prompt"}

\* the part of C24 about the list alone
C24_DeclinedList ==
    eng.cancelled = "list" => eng.pc \notin {"unc_prompt", "drive_prompt"}

\* C25: a run of handle_one_lnk that does not end in success (no strategy
\* resolved the shortcut, or the user cancelled) leaves the cache store as
\* it was when the run began.
C25_CacheChangedOnlyBySuccess ==
    (eng.pc = "returned" /\ eng.result # 0) => eng.cache = eng.cache0

\* the prefixes the cache store holds for the shortcut of the run
CachedPrefixes ==
    IF eng.cache = Null THEN {}
    ELSE LET lines == FgetsLines(eng.cache) IN
         { rstrip_newline(LineVal(lines[i])) :
             i \in { j \in 1..Len(lines) :
                       ~IsSkipped(lines[j]) /\ LineKey(lines[j]) = eng.lnk_abs } }

\* C29: the cache store never holds, for the shortcut of the run, a prefix
\* that equals / or lies under /proc, /sys, /dev, /run (other than
\* /run/media/...), /snap or /var/lib/snapd, whatever mount point or
\* directory the user chose in the assistance step.
C29_NoDenylistedPrefixCached ==
    \A p \in CachedPrefixes : ~Denylisted(p)

\* the same for the roots that is_prefix_dangerous of main.c knows
C29_KnownRootsOnly ==
    \A p \in CachedPrefixes : ~main_is_prefix_dangerous(p)

\* the part of C29 that does not depend on the GVFS directory lying under
\* /run: prefixes under /snap and /var/lib/snapd
C29_NoSnapPrefixCached ==
    \A p \in CachedPrefixes :
        ~UnderRoot(p, <<"/", "s", "n", "a", "p">>) /\ ~UnderRoot(p, <<"/", "v", "a", "r", "/", "l", "i", "b", "/", "s", "n", "a", "p", "d">>)

(***************************************************************************)
(* Further claims about the cache store.                                   *)
(***************************************************************************)
\* the last finished call of the sequential process was a rewrite
RewriteDone ==
    /\ procs[1].op = "set" /\ procs[1].returned
    /\ procs[1].key # <<>> /\ procs[1].prefix # <<>>
\* the lines that rewrite read, and whether a line is a line of its key
LinesBefore == FgetsLines(procs[1].inData)
IsLineOf(l, k) == IsEntry(l) /\ EntryKey(l) = k
NewLine == procs[1].key \o <<"=">> \o procs[1].prefix \o <<NL>>

\* C26: after cache_set_prefix_for_lnk(k, p) the store has, line for line,
\* the lines it had before: a line whose key differs from k (comments and
\* lines without '=' included) with the content it had, a line of k as
\* k=p; one more line, k=p, is there exactly when no line of k existed.  A
\* call with an empty key or an empty prefix does not open the store.
C26_RewritePreservesOtherLines ==
    /\ RewriteDone =>
          LET had == \E i \in 1..Len(LinesBefore) : IsLineOf(LinesBefore[i], procs[1].key) IN
          /\ Len(StoreLines) = Len(LinesBefore) + (IF had THEN 0 ELSE 1)
          /\ \A i \in 1..Len(LinesBefore) : i <= Len(StoreLines) =>
                IF IsLineOf(LinesBefore[i], procs[1].key)
                THEN StoreLines[i] = NewLine
                ELSE rstrip_newline(StoreLines[i]) = rstrip_newline(LinesBefore[i])
          /\ ~had => StoreLines[Len(StoreLines)] = NewLine
    /\ \A p \in Procs :
          (procs[p].op = "set" /\ (procs[p].key = <<>> \/ procs[p].prefix = <<>>)) =>
              procs[p].pc = "idle" /\ procs[p].outIno = 0

\* the same for stores whose last line ends with a newline
C26_NewlineTerminated ==
    (RewriteDone /\ (procs[1].inData = <<>> \/ procs[1].inData[Len(procs[1].inData)] = NL))
        => C26_RewritePreservesOtherLines

\* both processes have made one rewrite each, for different keys
TwoWritersDone ==
    /\ Quiescent
    /\ \A p \in Procs : /\ procs[p].op = "set" /\ procs[p].returned
                        /\ procs[p].key # <<>> /\ procs[p].prefix # <<>>
    /\ procs[1].key # procs[2].key
WrittenLine(p) == procs[p].key \o <<"=">> \o procs[p].prefix \o <<NL>>
InitialLines == IF store0 = Null THEN <<>> ELSE FgetsLines(store0)

\* C28: when two processes have each run cache_set_prefix_for_lnk once, for
\* two different keys, in any interleaving, the store holds the line
\* written by each of them, and every line of the store is one of these
\* two or a line of the initial store.
C28_NoLostUpdate ==
    TwoWritersDone =>
        /\ \A p \in Procs : \E i \in 1..Len(StoreLines) : StoreLines[i] = WrittenLine(p)
        /\ \A i \in 1..Len(StoreLines) :
              \/ \E p \in Procs : StoreLines[i] = WrittenLine(p)
              \/ \E j \in 1..Len(InitialLines) :
                    rstrip_newline(StoreLines[i]) = rstrip_newline(InitialLines[j])

(***************************************************************************)
(* mounts.c: try_map_unc_to_cifs_mounts called on its own.  /proc/mounts   *)
(* is a list of records (device, mount point, file-system type); the file  *)
(* system is the set of the paths that exist.                              *)
(***************************************************************************)
MaxCifsMounts == 2

CifsRequests == { <<"/", "/", "s", "/", "h", "/", "f">>, <<"/", "/", "S", "/", "h", "/", "f">>, <<"/", "/", "s", "/", "h">> }
CifsDevices == { <<"/", "/", "s", "/", "h">>, <<"/", "/", "S", "/", "H">>, <<"\\", "\\", "s", "\\", "x">> }
CifsRecords ==
    { [dev |-> d, mnt |-> mp, fst |-> t] :
        d \in CifsDevices, mp \in {PD, PE}, t \in {"cifs", "smb3", "ext4"} }
CifsFiles == { PD \o <<"/", "f">>, PE \o <<"/", "f">>, PD, PE }

CmInit ==
    \E u \in CifsRequests, ms \in SeqsUpTo(CifsRecords, MaxCifsMounts),
       fs \in SUBSET CifsFiles :
        cm = [pc |-> "call", uncPath |-> u, mounts |-> ms, existing |-> fs, result |-> Null]

cm_call ==
    /\ cm # Off /\ cm.pc = "call"
    /\ cm' = [cm EXCEPT !.pc = "done",
                        !.result = try_map_unc_to_cifs_mounts(cm.uncPath, cm.mounts, cm.existing)]
    /\ UNCHANGED otherThanCm

InitCifs == CmInit /\ EarlierOff /\ DecoderOff /\ rd = Off
NextCifs == cm_call
SpecCifs == InitCifs /\ [][NextCifs]_vars

\* mount i is a cifs/smb3 mount of the requested share, names compared
\* without regard to case, and mount point + rest exists
CifsServes(i) ==
    LET u == parse_unc_share(cm.uncPath) IN
    /\ cm.mounts[i].fst \in {"cifs", "smb3"}
    /\ strcasecmp_eq(normalize_unc(cm.mounts[i].dev),
                     <<"/", "/">> \o u.server \o <<"/">> \o u.share)
    /\ (cm.mounts[i].mnt \o u.rest) \in cm.existing

\* C27: try_map_unc_to_cifs_mounts returns mount point + rest of the first
\* cifs/smb3 mount whose normalized device name equals //server/share of
\* the request, compared case-insensitively, and whose candidate exists;
\* it returns NULL only when there is no such mount.
C27_CifsMatchIgnoresCase ==
    cm.pc = "done" =>
        LET serving == { i \in 1..Len(cm.mounts) : CifsServes(i) } IN
        IF serving = {} THEN cm.result = Null
        ELSE LET first == CHOOSE i \in serving : \A j \in serving : i <= j
             IN cm.result = cm.mounts[first].mnt \o parse_unc_share(cm.uncPath).rest

\* the same with the names compared as they are written
C27_ExactCase ==
    cm.pc = "done" =>
        LET u == parse_unc_share(cm.uncPath)
            serving == { i \in 1..Len(cm.mounts) :
                           /\ CifsServes(i)
                           /\ normalize_unc(cm.mounts[i].dev)
                                 = <<"/", "/">> \o u.server \o <<"/">> \o u.share }
        IN IF serving = {} THEN cm.result = Null
           ELSE LET first == CHOOSE i \in serving : \A j \in serving : i <= j
                IN cm.result = cm.mounts[first].mnt \o u.rest

(***************************************************************************)
(* A further claim about try_map_drive_to_mounts_scored.                   *)
(***************************************************************************)
\* the existing candidates among the lines processed so far
ScProcessed == { i \in ScCandidates : i < sc.i }
\* the first of them that has the highest score
ScFirstBest ==
    CHOOSE i \in ScProcessed :
        /\ \A j \in ScProcessed : ScScore(j) <= ScScore(i)
        /\ \A j \in ScProcessed : ScScore(j) = ScScore(i) => i <= j
\* the highest score of a set of lines, -1 for the empty set
ScMax(S) == IF S = {} THEN -1 ELSE CHOOSE s \in {ScScore(i) : i \in S} : \A j \in S : ScScore(j) <= s

\* C30: while the lines of /proc/mounts are processed, bestScore is the
\* highest score of the existing candidates seen so far, secondBestScore
\* the highest score of the others (the second-largest counting
\* multiplicity, -1 when fewer than two were seen), and bestPath the first
\* candidate that has the highest score.
C30_BestAndSecondBest ==
    sc.pc = "loop" =>
        IF ScProcessed = {}
        THEN sc.bestScore = -1 /\ sc.secondBestScore = -1 /\ sc.bestPath = <<>>
        ELSE /\ sc.bestScore = ScMax(ScProcessed)
             /\ sc.secondBestScore = ScMax(ScProcessed \ {ScFirstBest})
             /\ sc.bestPath = sc.mounts[ScFirstBest].mnt \o From(sc.winPath, 3)

\* three candidates were seen, the best score was reached twice, first by
\* the second candidate
C30_Witness ==
    /\ sc.pc = "loop"
    /\ Cardinality(ScProcessed) = 3
    /\ ScFirstBest = 2
    /\ sc.secondBestScore = sc.bestScore
    /\ ScScore(1) < sc.bestScore

====
